---- MODULE Spec2Model ----
(***************************************************************************)
(* A model of SumoNetVis' network object graph (Net.py): the objects built *)
(* from the records of a network file, the linking pass that resolves the  *)
(* textual identifiers into references, the process-wide marking           *)
(* configuration, the derivation functions of lanes and connections, and   *)
(* the drawing of a vehicle trajectory (Trajectory.py).                    *)
(*                                                                         *)
(* Conventions.  An identifier string is modelled by the sequence of its   *)
(* "_"-separated parts ("e1_0" is <<"e1","0">>, ":J_0_0" is                *)
(* <<":J","0","0">>), so that split("_") and "_".join are the operations   *)
(* on sequences they are in the source.  An absent identifier (None) is    *)
(* the empty sequence.  References to objects are positions: an edge or a  *)
(* junction reference is its position in the collection (0 for None), a    *)
(* lane reference is <<edge position, position in edge.lanes>> (<<>> for   *)
(* None), a request reference is <<junction position, position in          *)
(* junction._requests>>, a connection reference is its position in         *)
(* Net.connections.  Lengths are in hundredths of a unit.                  *)
(***************************************************************************)
EXTENDS Integers, Sequences, FiniteSets, TLC

VARIABLES edges, junctions, connections,
          LANE_MARKINGS_STYLE, PLOT_STOP_LINES, STRIPE_WIDTH_SCALE_FACTOR,
          pc, runs, ret, trajectory

vars == <<edges, junctions, connections,
          LANE_MARKINGS_STYLE, PLOT_STOP_LINES, STRIPE_WIDTH_SCALE_FACTOR,
          pc, runs, ret, trajectory>>

(***************************************************************************)
(* Bounds of the model.                                                    *)
(***************************************************************************)
\* how many times the linking pass may run in one behaviour
MaxLinkRuns == 2
\* stop offsets are declared at 0..MaxStopOffset network units
MaxStopOffset == 1
\* how many points are appended to the trajectory
MaxPoints == 3

(***************************************************************************)
(* Program constants.                                                      *)
(***************************************************************************)
DEFAULT_LANE_WIDTH == 320
USA_STYLE == "USA"
EUR_STYLE == "EUR"
\* stop line width (slw = 0.5)
StopLineWidth == 50

NoId == <<>>
NoLane == <<>>
NoException == "None"

(***************************************************************************)
(* Allowance (SumoNetVis._Utils.Allowance): a vehicle-class permission     *)
(* set over a fixed vocabulary, built from an allow list and a disallow    *)
(* list of class names.                                                    *)
(***************************************************************************)
Vocabulary == {"passenger", "bicycle", "pedestrian", "ship", "rail", "authority"}

RECURSIVE SeqToSet(_)
SeqToSet(s) == IF s = <<>> THEN {} ELSE {Head(s)} \cup SeqToSet(Tail(s))

\* Allowance(allow_string, disallow_string): "none" denies every class, a
\* non-empty allow list permits exactly its classes (allow wins over
\* disallow), "all" or an empty allow list permits every class that is not
\* disallowed.
Allowance(allow, disallow) ==
    IF allow = <<"none">> THEN {}
    ELSE IF allow # <<>> /\ allow # <<"all">> THEN SeqToSet(allow) \cap Vocabulary
    ELSE Vocabulary \ SeqToSet(disallow)

\* membership test: allows(c), allows[c]; "all" is the distinguished name
\* that asks whether every class is permitted
Member(a, c) == IF c = "all" THEN a = Vocabulary ELSE c \in a

\* A + B, A += B: the result permits a class iff either operand did
Union(a, b) == {c \in Vocabulary : Member(a, c) \/ Member(b, c)}

\* A.is_superset_of(B): every class B permits is permitted by A
IsSupersetOf(a, b) == \A c \in Vocabulary : Member(b, c) => Member(a, c)

\* A == "name": the set is exactly that one class; "none" is the empty set
EqualsName(a, name) ==
    IF name = "none" THEN a = {}
    ELSE IF name = "all" THEN a = Vocabulary
    ELSE a = {name}

(***************************************************************************)
(* Identifier strings.                                                     *)
(***************************************************************************)
Digits == <<"0", "1", "2", "3", "4", "5", "6", "7", "8", "9">>

\* str(i) of a lane index
IntToStr(i) == Digits[i + 1]

\* int(s): a record [ok, val]; not ok is a ValueError.  Leading zeros parse
\* ("00" is 0), anything else that is not a digit does not.
ParseInt(s) ==
    IF \E i \in 1..10 : Digits[i] = s
    THEN [ok |-> TRUE, val |-> (CHOOSE i \in 1..10 : Digits[i] = s) - 1]
    ELSE IF s = "00" THEN [ok |-> TRUE, val |-> 0]
    ELSE [ok |-> FALSE, val |-> 0]

\* "_".join(lane_id.split("_")[:-1])
EdgeIdOf(lane_id) == IF lane_id = <<>> THEN <<>> ELSE SubSeq(lane_id, 1, Len(lane_id) - 1)

\* lane_id.split("_")[-1]; the split of a string is never empty ("" gives [""])
LastPart(lane_id) == IF lane_id = <<>> THEN "" ELSE lane_id[Len(lane_id)]

\* edge_id + "_" + str(index)
LaneIdOf(edge_id, index) == Append(edge_id, IntToStr(index))

(***************************************************************************)
(* Lookups.  A lookup that can raise returns [exc, val].                   *)
(***************************************************************************)
\* the first position at which the sequence of booleans is TRUE, 0 if there
\* is none: the linear scans that return the first match
FirstPos(found) ==
    IF \E i \in DOMAIN found : found[i]
    THEN CHOOSE i \in DOMAIN found : found[i] /\ \A k \in 1..(i - 1) : ~found[k]
    ELSE 0

\* self.edges.get(edge_id, None)
EdgesGet(es, edge_id) == FirstPos([i \in DOMAIN es |-> es[i].id = edge_id])

\* self.junctions.get(junction_id, None)
JunctionsGet(js, junction_id) == FirstPos([i \in DOMAIN js |-> js[i].id = junction_id])

\* _Edge.get_lane(index): the position in edge.lanes, 0 stands for IndexError
EdgeGetLane(edge, index) ==
    FirstPos([i \in DOMAIN edge.lanes |-> edge.lanes[i].index = index])

\* Net._get_lane(lane_id)
GetLane(es, lane_id) ==
    LET lane_num == ParseInt(LastPart(lane_id))
        e == EdgesGet(es, EdgeIdOf(lane_id))
    IN  IF ~lane_num.ok THEN [exc |-> "ValueError", val |-> NoLane]
        ELSE IF e = 0 THEN [exc |-> NoException, val |-> NoLane]
        ELSE IF EdgeGetLane(es[e], lane_num.val) = 0
             THEN [exc |-> "IndexError", val |-> NoLane]
        ELSE [exc |-> NoException, val |-> <<e, EdgeGetLane(es[e], lane_num.val)>>]

\* the positions from i on, in order, at which the sequence of booleans is
\* TRUE: the loops that collect the matching connections
RECURSIVE SelectPos(_, _)
SelectPos(found, i) ==
    IF i > Len(found) THEN <<>>
    ELSE (IF found[i] THEN <<i>> ELSE <<>>) \o SelectPos(found, i + 1)

\* Net._get_connections_from_lane(lane_id)
GetConnectionsFromLane(cs, lane_id) ==
    SelectPos([c \in DOMAIN cs |->
                  LaneIdOf(cs[c].from_edge_id, cs[c].from_lane_index) = lane_id], 1)

\* Net._get_connections_to_lane(lane_id)
GetConnectionsToLane(cs, lane_id) ==
    SelectPos([c \in DOMAIN cs |->
                  LaneIdOf(cs[c].to_edge_id, cs[c].to_lane_index) = lane_id], 1)

\* _Junction.get_request_by_index(index): position in _requests, 0 is IndexError
GetRequestByIndex(junction, index) ==
    FirstPos([i \in DOMAIN junction.requests |-> junction.requests[i].index = index])

\* _Junction.get_request_by_int_lane(lane_id).  list.index gives the first
\* position (from 0); a miss is turned into an IndexError whose message
\* concatenates lane_id, which is a TypeError when lane_id is None.
GetRequestByIntLane(junction, lane_id) ==
    LET p == FirstPos([i \in DOMAIN junction.intLane_ids |->
                          junction.intLane_ids[i] = lane_id])
    IN  IF p = 0
        THEN [exc |-> IF lane_id = NoId THEN "TypeError" ELSE "IndexError", val |-> 0]
        ELSE IF GetRequestByIndex(junction, p - 1) = 0
             THEN [exc |-> "IndexError", val |-> 0]
        ELSE [exc |-> NoException, val |-> GetRequestByIndex(junction, p - 1)]

(***************************************************************************)
(* Net._link_objects.  The pass works on m = [edges, junctions,            *)
(* connections, exc]; a step taken after an exception was raised           *)
(* (m.exc # "None") changes nothing, so that m is the object graph as the  *)
(* raise left it.                                                          *)
(***************************************************************************)
\* link junctions to edges
LinkEdges(m) ==
    [m EXCEPT !.edges =
        [i \in DOMAIN m.edges |->
            [m.edges[i] EXCEPT
                !.from_junction = JunctionsGet(m.junctions, m.edges[i].from_junction_id),
                !.to_junction = JunctionsGet(m.junctions, m.edges[i].to_junction_id)]]]

\* for i in junction.incLane_ids: append the lane that resolves
RECURSIVE LinkIncLanes(_, _, _)
LinkIncLanes(m, j, k) ==
    IF m.exc # NoException \/ k > Len(m.junctions[j].incLane_ids) THEN m
    ELSE LET incLane == GetLane(m.edges, m.junctions[j].incLane_ids[k])
         IN  IF incLane.exc # NoException THEN [m EXCEPT !.exc = incLane.exc]
             ELSE IF incLane.val = NoLane THEN LinkIncLanes(m, j, k + 1)
             ELSE LinkIncLanes([m EXCEPT !.junctions[j].incLanes = Append(@, incLane.val)],
                               j, k + 1)

\* for i in junction.intLane_ids: append the lane that resolves
RECURSIVE LinkIntLanes(_, _, _)
LinkIntLanes(m, j, k) ==
    IF m.exc # NoException \/ k > Len(m.junctions[j].intLane_ids) THEN m
    ELSE LET intLane == GetLane(m.edges, m.junctions[j].intLane_ids[k])
         IN  IF intLane.exc # NoException THEN [m EXCEPT !.exc = intLane.exc]
             ELSE IF intLane.val = NoLane THEN LinkIntLanes(m, j, k + 1)
             ELSE LinkIntLanes([m EXCEPT !.junctions[j].intLanes = Append(@, intLane.val)],
                               j, k + 1)

\* the handler of the IndexError: the requests of the via lanes of the
\* connections that start at the via lane, [exc, val]
RECURSIVE DeeperRequests(_, _, _, _)
DeeperRequests(m, j, cxns_internal, i) ==
    IF i > Len(cxns_internal) THEN [exc |-> NoException, val |-> <<>>]
    ELSE LET req == GetRequestByIntLane(m.junctions[j],
                                        m.connections[cxns_internal[i]].via_id)
             rest == DeeperRequests(m, j, cxns_internal, i + 1)
         IN  IF req.exc # NoException THEN [exc |-> req.exc, val |-> <<>>]
             ELSE IF rest.exc # NoException THEN rest
             ELSE [exc |-> NoException, val |-> <<<<j, req.val>>>> \o rest.val]

\* reqs of one outgoing connection with a via id, [exc, val]
RequestsOfConnection(m, j, c) ==
    LET req == GetRequestByIntLane(m.junctions[j], m.connections[c].via_id)
    IN  IF req.exc = NoException
        THEN [exc |-> NoException, val |-> <<<<j, req.val>>>>]
        ELSE DeeperRequests(m, j, GetConnectionsFromLane(m.connections,
                                                         m.connections[c].via_id), 1)

\* for cxn in lane.outgoing_connections
RECURSIVE LinkRequests(_, _, _, _, _)
LinkRequests(m, j, lane, cxns, i) ==
    IF m.exc # NoException \/ i > Len(cxns) THEN m
    ELSE IF m.connections[cxns[i]].via_id = NoId THEN LinkRequests(m, j, lane, cxns, i + 1)
    ELSE LET reqs == RequestsOfConnection(m, j, cxns[i])
         IN  IF reqs.exc # NoException THEN [m EXCEPT !.exc = reqs.exc]
             ELSE LinkRequests(
                    [m EXCEPT !.edges[lane[1]].lanes[lane[2]].requests = @ \o reqs.val],
                    j, lane, cxns, i + 1)

\* for lane in junction.incLanes: link connections and requests
RECURSIVE LinkIncomingLanes(_, _, _)
LinkIncomingLanes(m, j, k) ==
    IF m.exc # NoException \/ k > Len(m.junctions[j].incLanes) THEN m
    ELSE LET lane == m.junctions[j].incLanes[k]
             lane_id == m.edges[lane[1]].lanes[lane[2]].id
             outgoing == GetConnectionsFromLane(m.connections, lane_id)
             m1 == [m EXCEPT
                      !.edges[lane[1]].lanes[lane[2]].incoming_connections =
                          GetConnectionsToLane(m.connections, lane_id),
                      !.edges[lane[1]].lanes[lane[2]].outgoing_connections = outgoing]
         IN  LinkIncomingLanes(LinkRequests(m1, j, lane, outgoing, 1), j, k + 1)

\* for junction in self.junctions.values()
RECURSIVE LinkJunctions(_, _)
LinkJunctions(m, j) ==
    IF m.exc # NoException \/ j > Len(m.junctions) THEN m
    ELSE IF m.junctions[j].type = "internal" THEN LinkJunctions(m, j + 1)
    ELSE LinkJunctions(LinkIncomingLanes(LinkIntLanes(LinkIncLanes(m, j, 1), j, 1), j, 1),
                       j + 1)

\* one connection: via_lane, from_edge, from_lane, to_edge, to_lane, in
\* this order, up to the first lookup that raises
LinkConnection(m, c) ==
    LET cxn == m.connections[c]
        via == IF cxn.via_id # NoId THEN GetLane(m.edges, cxn.via_id)
               ELSE [exc |-> NoException, val |-> cxn.via_lane]
        fe == EdgesGet(m.edges, cxn.from_edge_id)
        fl == IF fe = 0 THEN cxn.from_lane
              ELSE IF EdgeGetLane(m.edges[fe], cxn.from_lane_index) = 0 THEN NoLane
              ELSE <<fe, EdgeGetLane(m.edges[fe], cxn.from_lane_index)>>
        te == EdgesGet(m.edges, cxn.to_edge_id)
        tl == IF te = 0 THEN cxn.to_lane
              ELSE IF EdgeGetLane(m.edges[te], cxn.to_lane_index) = 0 THEN NoLane
              ELSE <<te, EdgeGetLane(m.edges[te], cxn.to_lane_index)>>
        c1 == [cxn EXCEPT !.via_lane = via.val]
        c2 == [c1 EXCEPT !.from_edge = fe]
        c3 == [c2 EXCEPT !.from_lane = fl]
        c4 == [c3 EXCEPT !.to_edge = te]
        c5 == [c4 EXCEPT !.to_lane = tl]
    IN  IF via.exc # NoException
        THEN [m EXCEPT !.exc = via.exc]
        ELSE IF fe # 0 /\ fl = NoLane
        THEN [m EXCEPT !.connections[c] = c2, !.exc = "IndexError"]
        ELSE IF te # 0 /\ tl = NoLane
        THEN [m EXCEPT !.connections[c] = c4, !.exc = "IndexError"]
        ELSE [m EXCEPT !.connections[c] = c5]

\* for connection in self.connections
RECURSIVE LinkConnections(_, _)
LinkConnections(m, c) ==
    IF m.exc # NoException \/ c > Len(m.connections) THEN m
    ELSE LinkConnections(LinkConnection(m, c), c + 1)

LinkObjects(m) == LinkConnections(LinkJunctions(LinkEdges(m), 1), 1)

(***************************************************************************)
(* Derivations of a lane.  lane is a lane reference <<e, l>>; its parent   *)
(* edge is es[e].  A derivation that can raise returns [exc, val].         *)
(***************************************************************************)
LaneAt(es, lane) == es[lane[1]].lanes[lane[2]]

\* lane_type with the passenger test moved up, right after the pedestrian
\* test
lane_type_PassengerFirst(allows, function) ==
    IF EqualsName(allows, "pedestrian")
    THEN (IF function # "None" /\ function = "crossing" THEN "crosswalk" ELSE "pedestrian")
    ELSE IF ~Member(allows, "passenger") THEN "no_passenger"
    ELSE IF EqualsName(allows, "bicycle") THEN "bicycle"
    ELSE IF EqualsName(allows, "ship") THEN "ship"
    ELSE IF EqualsName(allows, "authority") THEN "authority"
    ELSE IF EqualsName(allows, "none") THEN "none"
    ELSE "other"

\* _Lane.lane_type of a lane with the given permissions whose parent edge has
\* the given function; the function "None" stands for parentEdge is None
lane_type(allows, function) ==
    IF EqualsName(allows, "pedestrian")
    THEN (IF function # "None" /\ function = "crossing" THEN "crosswalk" ELSE "pedestrian")
    ELSE IF EqualsName(allows, "bicycle") THEN "bicycle"
    ELSE IF EqualsName(allows, "ship") THEN "ship"
    ELSE IF EqualsName(allows, "authority") THEN "authority"
    ELSE IF EqualsName(allows, "none") THEN "none"
    ELSE IF ~Member(allows, "passenger") THEN "no_passenger"
    ELSE "other"

\* lane.lane_type() of a lane of the network
LaneType(es, lane) == lane_type(LaneAt(es, lane).allows, es[lane[1]].function)

\* _Lane.inverse_lane_index
InverseLaneIndex(es, lane) == Len(es[lane[1]].lanes) - LaneAt(es, lane).index - 1

\* AccruedVClasses with the accrual started from Allowance() (every class)
\* instead of Allowance("none")
RECURSIVE AccruedVClasses_FromAll(_, _)
AccruedVClasses_FromAll(stop_offsets, n) ==
    IF n = 0 THEN Allowance(<<>>, <<>>)
    ELSE Union(AccruedVClasses_FromAll(stop_offsets, n - 1), stop_offsets[n].vClasses)

\* AccruedVClasses with "accrued_vClasses = vClasses" for "+=": the last
\* declaration replaces what was accrued
AccruedVClasses_Overwrite(stop_offsets, n) ==
    IF n = 0 THEN Allowance(<<"none">>, <<>>) ELSE stop_offsets[n].vClasses

\* the loop of get_stop_line_locations: accrued_vClasses += vClasses
RECURSIVE AccruedVClasses(_, _)
AccruedVClasses(stop_offsets, n) ==
    IF n = 0 THEN Allowance(<<"none">>, <<>>)
    ELSE Union(AccruedVClasses(stop_offsets, n - 1), stop_offsets[n].vClasses)

\* GetStopLineLocations that takes the declarations of the lane and then
\* those of its edge
GetStopLineLocations_Merged(es, lane) ==
    LET stop_offsets == LaneAt(es, lane).stop_offsets \o es[lane[1]].stop_offsets
        stop_line_locations == [i \in 1..Len(stop_offsets) |-> stop_offsets[i].value]
        accrued_vClasses == AccruedVClasses(stop_offsets, Len(stop_offsets))
    IN  IF ~IsSupersetOf(accrued_vClasses, LaneAt(es, lane).allows)
           /\ ~(\E i \in 1..Len(stop_line_locations) : stop_line_locations[i] = 0)
        THEN Append(stop_line_locations, 0)
        ELSE stop_line_locations

\* _Lane.get_stop_line_locations
GetStopLineLocations(es, lane) ==
    LET stop_offsets == IF Len(LaneAt(es, lane).stop_offsets) > 0
                        THEN LaneAt(es, lane).stop_offsets
                        ELSE es[lane[1]].stop_offsets
        stop_line_locations == [i \in 1..Len(stop_offsets) |-> stop_offsets[i].value]
        accrued_vClasses == AccruedVClasses(stop_offsets, Len(stop_offsets))
    IN  IF ~IsSupersetOf(accrued_vClasses, LaneAt(es, lane).allows)
           /\ ~(\E i \in 1..Len(stop_line_locations) : stop_line_locations[i] = 0)
        THEN Append(stop_line_locations, 0)
        ELSE stop_line_locations

\* HasOne that looks at the first character of the response only
HasOne_FirstOnly(response) == Len(response) > 0 /\ response[1] = "1"

\* "1" in request.response
HasOne(response) == \E i \in 1..Len(response) : response[i] = "1"

\* RequiresStopLine with the requests looked at before the junction type
RequiresStopLine_RequestsFirst(es, js, lane) ==
    LET to_junction == es[lane[1]].to_junction
        requests == LaneAt(es, lane).requests
    IN  IF to_junction = 0 THEN [exc |-> "AttributeError", val |-> FALSE]
        ELSE IF \E i \in 1..Len(requests) :
                   \E k \in 1..Len(js[requests[i][1]].requests[requests[i][2]].response) :
                      js[requests[i][1]].requests[requests[i][2]].response[k] = "1"
        THEN [exc |-> NoException, val |-> TRUE]
        ELSE [exc |-> NoException, val |-> js[to_junction].type = "always_stop"]

\* RequiresStopLine without the always_stop case
RequiresStopLine_NoAlwaysStop(es, js, lane) ==
    LET to_junction == es[lane[1]].to_junction
        requests == LaneAt(es, lane).requests
    IN  IF to_junction = 0 THEN [exc |-> "AttributeError", val |-> FALSE]
        ELSE IF js[to_junction].type \in {"internal", "zipper"}
        THEN [exc |-> NoException, val |-> FALSE]
        ELSE [exc |-> NoException,
              val |-> \E i \in 1..Len(requests) :
                \E k \in 1..Len(js[requests[i][1]].requests[requests[i][2]].response) :
                   js[requests[i][1]].requests[requests[i][2]].response[k] = "1"]

\* _Lane._requires_stop_line; reading .type of an unset to_junction is an
\* AttributeError
RequiresStopLine(es, js, lane) ==
    LET to_junction == es[lane[1]].to_junction
        requests == LaneAt(es, lane).requests
    IN  IF to_junction = 0 THEN [exc |-> "AttributeError", val |-> FALSE]
        ELSE IF js[to_junction].type \in {"internal", "zipper"}
        THEN [exc |-> NoException, val |-> FALSE]
        ELSE IF js[to_junction].type = "always_stop"
        THEN [exc |-> NoException, val |-> TRUE]
        ELSE [exc |-> NoException,
              val |-> \E i \in 1..Len(requests) :
                         HasOne(js[requests[i][1]].requests[requests[i][2]].response)]

\* _LaneMarking(alignment, linewidth, color, dashes, purpose).  The alignment
\* is the curve it is derived from: the lane centerline itself (side
\* "center"), its parallel offset to a side by a distance, or the transverse
\* segment across the lane at a distance from the lane end (side "across").
LaneMarking(side, distance, linewidth, color, dashes, purpose) ==
    [alignment |-> [side |-> side, distance |-> distance],
     linewidth |-> linewidth, color |-> color, dashes |-> dashes, purpose |-> purpose]

\* LaneDashes with the short dash wherever the lanes agree on bicycles and
\* differ on passenger vehicles
LaneDashes_ShortDashWhereverAgreed(allows, adjacent) ==
    IF Member(allows, "bicycle") # Member(adjacent, "bicycle") THEN <<10000, 0>>
    ELSE IF Member(allows, "passenger") # Member(adjacent, "passenger") THEN <<100, 300>>
    ELSE <<300, 900>>

\* the dash pattern of the marking between a lane and the adjacent lane
LaneDashes(allows, adjacent) ==
    IF Member(allows, "bicycle") # Member(adjacent, "bicycle") THEN <<10000, 0>>
    ELSE IF Member(allows, "passenger") # Member(adjacent, "passenger")
    THEN (IF Member(allows, "bicycle") THEN <<100, 300>> ELSE <<10000, 0>>)
    ELSE <<300, 900>>

\* HasOuterMarking without the test of the index
HasOuterMarking_AnyIndex(l) == ~(Member(l.allows, "pedestrian") /\ ~Member(l.allows, "all"))

\* if self.index == 0 and not (allows("pedestrian") and not allows("all"))
HasOuterMarking(l) ==
    l.index = 0 /\ ~(Member(l.allows, "pedestrian") /\ ~Member(l.allows, "all"))

\* UsaMarkings with the default dash pattern for every "lane" marking
UsaMarkings_DefaultDashes(es, lane, scale) ==
    LET l == LaneAt(es, lane)
        lw == 10 * scale
        adjacent == EdgeGetLane(es[lane[1]], l.index + 1)
        outer == IF HasOuterMarking(l)
                 THEN <<LaneMarking("right", l.width \div 2, lw, "w", <<10000, 0>>, "outer")>>
                 ELSE <<>>
    IN  IF InverseLaneIndex(es, lane) = 0
        THEN [exc |-> NoException,
              val |-> <<LaneMarking("left", l.width \div 2 - lw, lw, "y", <<10000, 0>>,
                                    "center")>> \o outer]
        ELSE IF adjacent = 0 THEN [exc |-> "IndexError", val |-> <<>>]
        ELSE [exc |-> NoException,
              val |-> <<LaneMarking("left", l.width \div 2, lw, "w", <<300, 900>>,
                                    "lane")>> \o outer]

\* the USA_STYLE branch of _guess_lane_markings, [exc, val]
UsaMarkings(es, lane, scale) ==
    LET l == LaneAt(es, lane)
        lw == 10 * scale
        adjacent == EdgeGetLane(es[lane[1]], l.index + 1)
        outer == IF HasOuterMarking(l)
                 THEN <<LaneMarking("right", l.width \div 2, lw, "w", <<10000, 0>>, "outer")>>
                 ELSE <<>>
    IN  IF InverseLaneIndex(es, lane) = 0
        THEN [exc |-> NoException,
              val |-> <<LaneMarking("left", l.width \div 2 - lw, lw, "y", <<10000, 0>>,
                                    "center")>> \o outer]
        ELSE IF adjacent = 0 THEN [exc |-> "IndexError", val |-> <<>>]
        ELSE [exc |-> NoException,
              val |-> <<LaneMarking("left", l.width \div 2, lw, "w",
                                    LaneDashes(l.allows, es[lane[1]].lanes[adjacent].allows),
                                    "lane")>> \o outer]

\* the EUR_STYLE branch of _guess_lane_markings, [exc, val]
EurMarkings(es, lane, scale) ==
    LET l == LaneAt(es, lane)
        lw == 10 * scale
        adjacent == EdgeGetLane(es[lane[1]], l.index + 1)
        outer == IF HasOuterMarking(l)
                 THEN <<LaneMarking("right", l.width \div 2, lw, "w", <<10000, 0>>, "outer")>>
                 ELSE <<>>
    IN  IF InverseLaneIndex(es, lane) = 0
        THEN [exc |-> NoException,
              val |-> <<LaneMarking("left", l.width \div 2, lw, "w", <<10000, 0>>,
                                    "center")>> \o outer]
        ELSE IF adjacent = 0 THEN [exc |-> "IndexError", val |-> <<>>]
        ELSE [exc |-> NoException,
              val |-> <<LaneMarking("left", l.width \div 2, lw, "w",
                                    LaneDashes(l.allows, es[lane[1]].lanes[adjacent].allows),
                                    "lane")>> \o outer]

\* StopLineMarkings that stops after the first stop line location
StopLineMarkings_FirstOnly(es, lane) ==
    LET locations == GetStopLineLocations(es, lane)
    IN  [i \in 1..(IF locations = <<>> THEN 0 ELSE 1) |->
            LaneMarking("across", 100 * locations[i] + StopLineWidth \div 2,
                        StopLineWidth, "w", <<10000, 0>>, "stopline")]

\* the stop line markings: one per stop line location, pos = length -
\* stop_line_location - slw/2 (ops.substring is available: Shapely >= 1.7.0)
StopLineMarkings(es, lane) ==
    LET locations == GetStopLineLocations(es, lane)
    IN  [i \in 1..Len(locations) |->
            LaneMarking("across", 100 * locations[i] + StopLineWidth \div 2,
                        StopLineWidth, "w", <<10000, 0>>, "stopline")]

\* GuessLaneMarkings whose crossing branch does not return: the styled
\* markings follow the "crossing" marking
GuessLaneMarkings_CrossingFallsThrough(es, js, lane, style, plot_stop_lines, scale) ==
    LET l == LaneAt(es, lane)
        styled == IF style = USA_STYLE THEN UsaMarkings(es, lane, scale)
                  ELSE EurMarkings(es, lane, scale)
        crossing == IF es[lane[1]].function = "crossing"
                    THEN <<LaneMarking("center", 0, l.width, "w", <<50, 50>>, "crossing")>>
                    ELSE <<>>
        wanted == plot_stop_lines /\ ~EqualsName(l.allows, "pedestrian")
                                  /\ ~EqualsName(l.allows, "ship")
        required == RequiresStopLine(es, js, lane)
    IN  IF es[lane[1]].function = "internal" \/ EqualsName(l.allows, "ship")
           \/ EqualsName(l.allows, "rail")
        THEN [exc |-> NoException, val |-> <<>>]
        ELSE IF styled.exc # NoException THEN styled
        ELSE IF ~wanted THEN [exc |-> NoException, val |-> crossing \o styled.val]
        ELSE IF required.exc # NoException THEN [exc |-> required.exc, val |-> <<>>]
        ELSE IF required.val
        THEN [exc |-> NoException,
              val |-> crossing \o styled.val \o StopLineMarkings(es, lane)]
        ELSE [exc |-> NoException, val |-> crossing \o styled.val]

\* GuessLaneMarkings without the early return for rail lanes
GuessLaneMarkings_RailFallsThrough(es, js, lane, style, plot_stop_lines, scale) ==
    LET l == LaneAt(es, lane)
        styled == IF style = USA_STYLE THEN UsaMarkings(es, lane, scale)
                  ELSE IF style = EUR_STYLE THEN EurMarkings(es, lane, scale)
                  ELSE [exc |-> NoException, val |-> <<>>]
        wanted == plot_stop_lines /\ ~EqualsName(l.allows, "pedestrian")
                                  /\ ~EqualsName(l.allows, "ship")
        required == RequiresStopLine(es, js, lane)
    IN  IF es[lane[1]].function = "internal" \/ EqualsName(l.allows, "ship")
        THEN [exc |-> NoException, val |-> <<>>]
        ELSE IF es[lane[1]].function = "crossing"
        THEN [exc |-> NoException,
              val |-> <<LaneMarking("center", 0, l.width, "w", <<50, 50>>, "crossing")>>]
        ELSE IF styled.exc # NoException THEN styled
        ELSE IF ~wanted THEN styled
        ELSE IF required.exc # NoException THEN [exc |-> required.exc, val |-> <<>>]
        ELSE IF required.val
        THEN [exc |-> NoException, val |-> styled.val \o StopLineMarkings(es, lane)]
        ELSE styled

\* _Lane._guess_lane_markings under the given global settings, [exc, val]
GuessLaneMarkings(es, js, lane, style, plot_stop_lines, scale) ==
    LET l == LaneAt(es, lane)
        styled == IF style = USA_STYLE THEN UsaMarkings(es, lane, scale)
                  ELSE IF style = EUR_STYLE THEN EurMarkings(es, lane, scale)
                  ELSE [exc |-> NoException, val |-> <<>>]
        wanted == plot_stop_lines /\ ~EqualsName(l.allows, "pedestrian")
                                  /\ ~EqualsName(l.allows, "ship")
        required == RequiresStopLine(es, js, lane)
    IN  IF es[lane[1]].function = "internal" \/ EqualsName(l.allows, "ship")
           \/ EqualsName(l.allows, "rail")
        THEN [exc |-> NoException, val |-> <<>>]
        ELSE IF es[lane[1]].function = "crossing"
        THEN [exc |-> NoException,
              val |-> <<LaneMarking("center", 0, l.width, "w", <<50, 50>>, "crossing")>>]
        ELSE IF styled.exc # NoException THEN styled
        ELSE IF ~wanted THEN styled
        ELSE IF required.exc # NoException THEN [exc |-> required.exc, val |-> <<>>]
        ELSE IF required.val
        THEN [exc |-> NoException, val |-> styled.val \o StopLineMarkings(es, lane)]
        ELSE styled

(***************************************************************************)
(* Derivation of a connection.                                             *)
(***************************************************************************)
\* GenerateShape whose precondition forgets the via lane
GenerateShape_NoViaCheck(es, cxn) ==
    IF cxn.from_lane = NoLane \/ cxn.to_lane = NoLane
    THEN [exc |-> "ReferenceError", val |-> <<>>]
    ELSE [exc |-> NoException,
          val |-> <<[lane |-> cxn.from_lane, part |-> "end",
                     distance |-> LaneAt(es, cxn.from_lane).width \div 2],
                    [lane |-> cxn.to_lane, part |-> "start",
                     distance |-> LaneAt(es, cxn.to_lane).width \div 2]>>]

\* _Connection._generate_shape: the ReferenceError, or the polygon stitched
\* from the from-lane's end corners, the via-lane's interior offset points
\* (at the from-lane's half width) and the to-lane's start corners
GenerateShape(es, cxn) ==
    IF cxn.from_lane = NoLane \/ cxn.to_lane = NoLane \/ cxn.via_lane = NoLane
    THEN [exc |-> "ReferenceError", val |-> <<>>]
    ELSE [exc |-> NoException,
          val |-> <<[lane |-> cxn.from_lane, part |-> "end",
                     distance |-> LaneAt(es, cxn.from_lane).width \div 2],
                    [lane |-> cxn.via_lane, part |-> "interior",
                     distance |-> LaneAt(es, cxn.from_lane).width \div 2],
                    [lane |-> cxn.to_lane, part |-> "start",
                     distance |-> LaneAt(es, cxn.to_lane).width \div 2]>>]

(***************************************************************************)
(* The marking configuration and the network-wide operations.  g is the    *)
(* record [style, plot_stop_lines, scale] of the three module globals; an  *)
(* operation returns [exc, g, val]: the exception it raised, the globals   *)
(* as it left them and what it produced.  An omitted argument is "None".   *)
(***************************************************************************)
\* set_style with the stop line toggle assigned before the style is looked at
set_style_ToggleFirst(g, style, plot_stop_lines) ==
    LET g1 == [g EXCEPT !.plot_stop_lines = IF plot_stop_lines # "None"
                                            THEN plot_stop_lines = "True" ELSE @]
    IN  IF style # "None" /\ style \notin {USA_STYLE, EUR_STYLE}
        THEN [exc |-> "IndexError", g |-> g1]
        ELSE [exc |-> NoException,
              g |-> [g1 EXCEPT !.style = IF style # "None" THEN style ELSE @]]

\* set_style(style, plot_stop_lines)
set_style(g, style, plot_stop_lines) ==
    IF style # "None" /\ style \notin {USA_STYLE, EUR_STYLE}
    THEN [exc |-> "IndexError", g |-> g]
    ELSE [exc |-> NoException,
          g |-> [g EXCEPT !.style = IF style # "None" THEN style ELSE @,
                          !.plot_stop_lines = IF plot_stop_lines # "None"
                                              THEN plot_stop_lines = "True" ELSE @]]

\* set_stripe_width_scale(factor)
\* set_stripe_width_scale that keeps a larger factor set before
set_stripe_width_scale_KeepsLarger(g, factor) ==
    [g EXCEPT !.scale = IF factor > @ THEN factor ELSE @]

set_stripe_width_scale(g, factor) == [g EXCEPT !.scale = factor]

\* COLOR_SCHEME[type], as _Lane.lane_color looks it up
LaneColor(type) ==
    CASE type = "pedestrian" -> "#808080"
      [] type = "bicycle" -> "#C0422C"
      [] type = "ship" -> "#96C8C8"
      [] type = "authority" -> "#FF0000"
      [] type = "none" -> "#FFFFFF"
      [] type = "no_passenger" -> "#5C5C5C"
      [] type = "crosswalk" -> "#00000000"
      [] OTHER -> "#000000"

\* the lanes of the edges that are not internal, in the order the loops
\* "for edge in self.edges.values(): ... for lane in edge.lanes" visit them
RECURSIVE LanesFrom(_, _, _)
LanesFrom(es, e, l) ==
    IF e > Len(es) THEN <<>>
    ELSE IF es[e].function = "internal" \/ l > Len(es[e].lanes) THEN LanesFrom(es, e + 1, 1)
    ELSE <<<<e, l>>>> \o LanesFrom(es, e, l + 1)

\* _Utils.Object3D.from_shape(shape, name, material, z, extrude_height);
\* names and materials are sequences of "_"-separated parts, z is in
\* thousandths, the height in hundredths
Object3D(shape, name, material, z, extrude_height) ==
    [shape |-> shape, name |-> name, material |-> material, z |-> z,
     extrude_height |-> extrude_height]

\* _Lane.get_as_3d_object: the lane body (the buffer of the centerline by
\* half the width)
LaneObject(es, lane) ==
    Object3D(<<[lane |-> lane, part |-> "body", distance |-> LaneAt(es, lane).width \div 2]>>,
             LaneAt(es, lane).id, <<LaneType(es, lane), "lane">>, 0,
             IF LaneType(es, lane) = "pedestrian" THEN 15 ELSE 0)

\* _Lane.get_markings_as_3d_objects, one marking
MarkingObject(marking) ==
    Object3D(<<marking>>, <<marking.purpose, "marking">>, <<marking.color, "marking">>,
             IF marking.purpose = "crossing" THEN 2 ELSE 1, 0)

\* the body of the lane loop of generate_obj_text, [exc, val]
LaneObjects(es, js, g, lane) ==
    LET body == IF es[lane[1]].function \notin {"crossing", "walkingarea"}
                THEN <<LaneObject(es, lane)>> ELSE <<>>
        markings == GuessLaneMarkings(es, js, lane, g.style, g.plot_stop_lines, g.scale)
    IN  IF markings.exc # NoException THEN [exc |-> markings.exc, val |-> <<>>]
        ELSE [exc |-> NoException,
              val |-> body \o [i \in DOMAIN markings.val |-> MarkingObject(markings.val[i])]]

\* the edge loop of generate_obj_text from the i-th lane on, [exc, val]; an
\* exception leaves the loop and nothing is returned
RECURSIVE ObjectsOfLanes(_, _, _, _, _)
ObjectsOfLanes(es, js, g, lanes, i) ==
    IF i > Len(lanes) THEN [exc |-> NoException, val |-> <<>>]
    ELSE LET objects == LaneObjects(es, js, g, lanes[i])
             rest == ObjectsOfLanes(es, js, g, lanes, i + 1)
         IN  IF objects.exc # NoException THEN objects
             ELSE IF rest.exc # NoException THEN rest
             ELSE [exc |-> NoException, val |-> objects.val \o rest.val]

\* _Connection.get_as_3d_object, [exc, val]
ConnectionObject(es, cxn) ==
    LET shape == GenerateShape(es, cxn)
        pedestrian == LaneType(es, cxn.from_lane) = "pedestrian"
                      /\ LaneType(es, cxn.to_lane) = "pedestrian"
    IN  IF shape.exc # NoException THEN [exc |-> shape.exc, val |-> <<>>]
        ELSE [exc |-> NoException,
              val |-> <<Object3D(shape.val, <<"cxn", "via">> \o cxn.via_id,
                                 IF pedestrian THEN <<"pedestrian">> ELSE <<"connection">>,
                                 0, IF pedestrian THEN 15 ELSE 0)>>]

\* the connection loop of generate_obj_text from the c-th connection on,
\* [exc, val]; .lane_type() of an unset from_lane or to_lane is an
\* AttributeError
RECURSIVE ObjectsOfConnections(_, _, _)
ObjectsOfConnections(es, cs, c) ==
    IF c > Len(cs) THEN [exc |-> NoException, val |-> <<>>]
    ELSE LET rest == ObjectsOfConnections(es, cs, c + 1)
             object == ConnectionObject(es, cs[c])
         IN  IF cs[c].via_id = NoId THEN rest
             ELSE IF cs[c].from_lane = NoLane THEN [exc |-> "AttributeError", val |-> <<>>]
             ELSE IF LaneType(es, cs[c].from_lane) # "pedestrian" THEN rest
             ELSE IF cs[c].to_lane = NoLane THEN [exc |-> "AttributeError", val |-> <<>>]
             ELSE IF LaneType(es, cs[c].to_lane) # "pedestrian" THEN rest
             ELSE IF object.exc # NoException THEN object
             ELSE IF rest.exc # NoException THEN rest
             ELSE [exc |-> NoException, val |-> object.val \o rest.val]

\* Net.generate_obj_text(style, stripe_width_scale), [exc, g, val]: val is
\* the list of objects handed to generate_obj_text_from_objects.  The
\* junctions of the model's networks declare no shape and no additional
\* file is loaded, so the loops over them add nothing.
generate_obj_text(es, js, cs, g, style, stripe_width_scale) ==
    LET styled == IF style # "None" THEN set_style(g, style, "None")
                  ELSE [exc |-> NoException, g |-> g]
        g1 == set_stripe_width_scale(styled.g, stripe_width_scale)
        lanes == ObjectsOfLanes(es, js, g1, LanesFrom(es, 1, 1), 1)
        cxns == ObjectsOfConnections(es, cs, 1)
    IN  IF styled.exc # NoException THEN [exc |-> styled.exc, g |-> styled.g, val |-> <<>>]
        ELSE IF lanes.exc # NoException THEN [exc |-> lanes.exc, g |-> g1, val |-> <<>>]
        ELSE IF cxns.exc # NoException THEN [exc |-> cxns.exc, g |-> g1, val |-> <<>>]
        ELSE [exc |-> NoException, g |-> g1, val |-> lanes.val \o cxns.val]

\* _Lane.plot_shape: the patch added to the axes
LanePatch(es, lane) ==
    [artist |-> "patch", lane |-> lane, color |-> LaneColor(LaneType(es, lane)),
     marking |-> <<>>]

\* _LaneMarking.plot: the line added to the axes
MarkingLine(lane, marking) ==
    [artist |-> "line", lane |-> lane, color |-> marking.color, marking |-> <<marking>>]

\* the body of the lane loop of _Edge.plot, [exc, val]: val is what was
\* added to the axes, also when the markings could not be derived
PlotLane(es, js, g, lane) ==
    LET markings == GuessLaneMarkings(es, js, lane, g.style, g.plot_stop_lines, g.scale)
    IN  IF markings.exc # NoException
        THEN [exc |-> markings.exc, val |-> <<LanePatch(es, lane)>>]
        ELSE [exc |-> NoException,
              val |-> <<LanePatch(es, lane)>>
                      \o [i \in DOMAIN markings.val |-> MarkingLine(lane, markings.val[i])]]

\* the edge loop of Net.plot from the i-th lane on, [exc, val]; an exception
\* leaves the loop with the axes as they are
RECURSIVE PlotLanes(_, _, _, _, _)
PlotLanes(es, js, g, lanes, i) ==
    IF i > Len(lanes) THEN [exc |-> NoException, val |-> <<>>]
    ELSE LET drawn == PlotLane(es, js, g, lanes[i])
             rest == PlotLanes(es, js, g, lanes, i + 1)
         IN  IF drawn.exc # NoException THEN drawn
             ELSE [exc |-> rest.exc, val |-> drawn.val \o rest.val]

\* Net.plot(style, stripe_width_scale, plot_stop_lines) with
\* clip_to_limits=False, [exc, g, val]: val is what was added to the axes
plot(es, js, g, style, stripe_width_scale, plot_stop_lines) ==
    LET styled == IF style # "None" THEN set_style(g, style, "None")
                  ELSE [exc |-> NoException, g |-> g]
        toggled == IF plot_stop_lines # "None" THEN set_style(styled.g, "None", plot_stop_lines)
                   ELSE [exc |-> NoException, g |-> styled.g]
        g1 == set_stripe_width_scale(toggled.g, stripe_width_scale)
        drawn == PlotLanes(es, js, g1, LanesFrom(es, 1, 1), 1)
    IN  IF styled.exc # NoException THEN [exc |-> styled.exc, g |-> styled.g, val |-> <<>>]
        ELSE [exc |-> drawn.exc, g |-> g1, val |-> drawn.val]

(***************************************************************************)
(* Construction of the objects from their records (the __init__ methods    *)
(* and Net.__init__ before the linking pass).                              *)
(***************************************************************************)
\* _Lane.__init__, with the stop offsets appended by append_stop_offset
Lane(edge_id, index, allows, stop_offsets) ==
    [id |-> LaneIdOf(edge_id, index), index |-> index, allows |-> allows,
     width |-> DEFAULT_LANE_WIDTH, stop_offsets |-> stop_offsets,
     incoming_connections |-> <<>>, outgoing_connections |-> <<>>, requests |-> <<>>]

\* _Edge.__init__, with the lanes appended by append_lane
Edge(id, function, from, to, lanes, stop_offsets) ==
    [id |-> id, function |-> function, from_junction_id |-> from, to_junction_id |-> to,
     from_junction |-> 0, to_junction |-> 0, lanes |-> lanes, stop_offsets |-> stop_offsets]

\* _Edge.append_stop_offset, _Lane.append_stop_offset: (value, vClasses)
StopOffset(value, vc, exceptions) == [value |-> value, vClasses |-> Allowance(vc, exceptions)]

\* _Request.__init__
Request(index, response) == [index |-> index, response |-> response]

\* _Junction.__init__, with the requests appended by append_request
Junction(id, type, incLane_ids, intLane_ids, requests) ==
    [id |-> id, type |-> type, incLane_ids |-> incLane_ids, intLane_ids |-> intLane_ids,
     incLanes |-> <<>>, intLanes |-> <<>>, requests |-> requests]

\* _Connection.__init__
Connection(from, fromLane, to, toLane, via) ==
    [from_edge_id |-> from, to_edge_id |-> to, from_edge |-> 0, to_edge |-> 0,
     from_lane_index |-> fromLane, to_lane_index |-> toLane,
     from_lane |-> NoLane, to_lane |-> NoLane, via_id |-> via, via_lane |-> NoLane]

(***************************************************************************)
(* The networks of the model: an edge e1 of two lanes into junction J, the *)
(* internal edges :J_0 and :J_1 of J, an edge e2 out of J, a second        *)
(* junction K, and three connections: e1_0 -> e2_0, e1_1 -> e2_0 and the   *)
(* continuation :J_0_0 -> e2_0.                                            *)
(***************************************************************************)
E1 == <<"e1">>
E2 == <<"e2">>
IJ0 == <<":J", "0">>
IJ1 == <<":J", "1">>
JId == <<"J">>
KId == <<"K">>

\* the response bitstrings of a junction of two requests
Responses == [1..2 -> {"0", "1"}]

AllClasses == Allowance(<<>>, <<>>)

Network(jtype, e1to, function, allows0, allows1, inc, int, requests, via1, fromLane1, to1, via3) ==
    [edges |->
        <<Edge(E1, function, KId, e1to,
               <<Lane(E1, 0, allows0, <<>>), Lane(E1, 1, allows1, <<>>)>>, <<>>),
          Edge(IJ0, "internal", NoId, NoId, <<Lane(IJ0, 0, AllClasses, <<>>)>>, <<>>),
          Edge(IJ1, "internal", NoId, NoId, <<Lane(IJ1, 0, AllClasses, <<>>)>>, <<>>),
          Edge(E2, "normal", JId, KId, <<Lane(E2, 0, AllClasses, <<>>)>>, <<>>)>>,
     junctions |->
        <<Junction(JId, jtype, inc, int, requests),
          Junction(KId, "internal", <<>>, <<>>, <<>>)>>,
     connections |->
        <<Connection(E1, fromLane1, to1, 0, via1),
          Connection(E1, 1, E2, 0, LaneIdOf(IJ1, 0)),
          Connection(IJ0, 0, E2, 0, via3)>>]

\* the connections of a fully resolved network
ResolvedInc == <<LaneIdOf(E1, 0), LaneIdOf(E1, 1)>>
ResolvedInt == <<LaneIdOf(IJ0, 0), LaneIdOf(IJ1, 0)>>

\* networks that differ in what their identifiers resolve to
LinkNetworks ==
    {Network("priority", JId, "normal", AllClasses, AllClasses,
             inc, int, reqs, c1[1], c1[2], c1[3], via3) :
        inc \in {ResolvedInc,
                 <<<<"zz", "0">>, LaneIdOf(E1, 0)>>,
                 <<LaneIdOf(E1, 5)>>,
                 <<<<"e1", "x">>>>},
        int \in {ResolvedInt, <<LaneIdOf(IJ1, 0)>>},
        reqs \in {<<Request(0, <<"0", "1">>), Request(1, <<"0", "0">>)>>,
                  <<Request(0, <<"0", "1">>)>>},
        c1 \in {<<LaneIdOf(IJ0, 0), 0, E2>>,
                <<NoId, 0, E2>>,
                <<<<":K", "0", "0">>, 0, E2>>,
                <<LaneIdOf(IJ0, 0), 0, <<"zz">>>>,
                <<LaneIdOf(IJ0, 0), 5, E2>>},
        via3 \in {NoId, LaneIdOf(IJ1, 0)}}
    \cup
    {Network("internal", JId, "normal", AllClasses, AllClasses,
             inc, ResolvedInt, <<Request(0, <<"0", "1">>)>>, c1[1], c1[2], c1[3], NoId) :
        inc \in {ResolvedInc, <<LaneIdOf(E1, 5)>>},
        c1 \in {<<LaneIdOf(IJ0, 0), 0, E2>>,
                <<<<":J", "0", "7">>, 0, E2>>,
                <<<<":J", "0", "x">>, 0, E2>>}}
    \cup
    {Network("priority", JId, "normal", AllClasses, AllClasses,
             ResolvedInc, <<LaneIdOf(IJ1, 0)>>, <<Request(0, <<"0", "1">>)>>,
             LaneIdOf(IJ0, 0), 0, E2, <<":K", "0", "0">>)}

\* a footpath: a sidewalk e1 into junction J and a sidewalk e2 out of it,
\* joined by one connection over the internal lane :J_0_0
WalkNetwork(from1, to1, via1) ==
    [edges |->
        <<Edge(E1, "normal", NoId, JId,
               <<Lane(E1, 0, Allowance(<<"pedestrian">>, <<>>), <<>>)>>, <<>>),
          Edge(IJ0, "internal", NoId, NoId,
               <<Lane(IJ0, 0, Allowance(<<"pedestrian">>, <<>>), <<>>)>>, <<>>),
          Edge(E2, "normal", JId, NoId,
               <<Lane(E2, 0, Allowance(<<"pedestrian">>, <<>>), <<>>)>>, <<>>)>>,
     junctions |->
        <<Junction(JId, "priority", <<LaneIdOf(E1, 0)>>, <<LaneIdOf(IJ0, 0)>>,
                   <<Request(0, <<"0">>)>>)>>,
     connections |-> <<Connection(from1, 0, to1, 0, via1)>>]

\* footpaths that differ in what the identifiers of the connection resolve to
WalkNetworks ==
    {WalkNetwork(from1, to1, via1) :
        from1 \in {E1, <<"zz">>},
        to1 \in {E2, <<"zz">>},
        via1 \in {LaneIdOf(IJ0, 0), <<":K", "0", "0">>}}

\* resolved networks that differ in the destination junction of e1, in the
\* responses of the requests and in the lanes of e1
MarkNetworks ==
    {Network(jtype, e1to, "normal", allows0, AllClasses,
             ResolvedInc, ResolvedInt, <<Request(0, r0), Request(1, <<"1", "0">>)>>,
             LaneIdOf(IJ0, 0), 0, E2, NoId) :
        jtype \in {"priority", "zipper", "always_stop"},
        e1to \in {JId, KId},
        r0 \in Responses,
        allows0 \in {AllClasses, Allowance(<<"pedestrian">>, <<>>)}}
    \cup
    {Network("always_stop", JId, function, allows0, allows1,
             ResolvedInc, ResolvedInt,
             <<Request(0, <<"0", "0">>), Request(1, <<"0", "0">>)>>,
             LaneIdOf(IJ0, 0), 0, E2, NoId) :
        function \in {"normal", "crossing", "internal"},
        allows0 \in {AllClasses,
                     Allowance(<<"pedestrian">>, <<>>),
                     Allowance(<<"bicycle">>, <<>>),
                     Allowance(<<"ship">>, <<>>),
                     Allowance(<<"rail">>, <<>>),
                     Allowance(<<"none">>, <<>>),
                     Allowance(<<>>, <<"passenger">>),
                     Allowance(<<"passenger">>, <<>>)},
        allows1 \in {AllClasses,
                     Allowance(<<"bicycle">>, <<>>),
                     Allowance(<<"authority">>, <<>>)}}
    \cup
    {Network("priority", <<"nowhere">>, function, allows0, AllClasses,
             ResolvedInc, ResolvedInt,
             <<Request(0, <<"0", "1">>), Request(1, <<"0", "0">>)>>,
             LaneIdOf(IJ0, 0), 0, E2, NoId) :
        function \in {"normal", "crossing", "internal"},
        allows0 \in {AllClasses, Allowance(<<"pedestrian">>, <<>>),
                     Allowance(<<"ship">>, <<>>)}}

\* a network of one lane e1_0 into junction J and one lane e2_0 out of it
SmallNetwork(jtype, allows, laneOffsets, edgeOffsets) ==
    [edges |->
        <<Edge(E1, "normal", NoId, JId, <<Lane(E1, 0, allows, laneOffsets)>>, edgeOffsets),
          Edge(E2, "normal", JId, NoId, <<Lane(E2, 0, AllClasses, <<>>)>>, <<>>)>>,
     junctions |-> <<Junction(JId, jtype, <<LaneIdOf(E1, 0)>>, <<>>, <<>>)>>,
     connections |-> <<Connection(E1, 0, E2, 0, NoId)>>]

\* the allow and disallow lists of the lanes and of the stop offsets
LaneAllowances ==
    {Allowance(allow, disallow) :
        allow \in {<<>>, <<"all">>, <<"none">>, <<"pedestrian">>, <<"ship">>,
                   <<"passenger", "bicycle">>},
        disallow \in {<<>>, <<"passenger">>, <<"pedestrian", "ship">>}}

StopOffsetAllowances ==
    {Allowance(<<"passenger">>, <<>>), Allowance(<<"bicycle", "pedestrian">>, <<>>),
     Allowance(<<>>, <<"passenger", "bicycle">>)}

StopOffsets == {[value |-> v, vClasses |-> a] : v \in 0..MaxStopOffset,
                                                 a \in StopOffsetAllowances}

\* networks that differ in the permissions of lane e1_0 and in the stop
\* offsets declared on the lane and on its edge
OffsetNetworks ==
    {SmallNetwork("always_stop", allows, laneOffsets, edgeOffsets) :
        allows \in LaneAllowances,
        laneOffsets \in {<<>>} \cup {<<d>> : d \in StopOffsets}
                       \cup {<<d1, d2>> : d1 \in {d \in StopOffsets : d.value = 1},
                                          d2 \in {d \in StopOffsets : d.value = 0}},
        edgeOffsets \in {<<>>, <<StopOffset(1, <<>>, <<>>)>>}}
    \cup
    {SmallNetwork("priority", allows, <<>>, edgeOffsets) :
        allows \in LaneAllowances,
        edgeOffsets \in {<<>>, <<StopOffset(1, <<>>, <<>>)>>}}

(***************************************************************************)
(* Trajectory (Trajectory.py): the lists of a trajectory that plot reads.  *)
(* The lists speed, angle and lane grow with the others and are read by    *)
(* the colour assignments only.                                            *)
(***************************************************************************)
\* Trajectory(id): every list empty
Trajectory(id) == [id |-> id, time |-> <<>>, x |-> <<>>, y |-> <<>>, colors |-> <<>>]

\* Trajectory.append_point(time, x, y, color=color)
append_point(t, time, x, y, color) ==
    [t EXCEPT !.time = Append(@, time), !.x = Append(@, x), !.y = Append(@, y),
              !.colors = Append(@, color)]

\* Trajectory.assign_colors_constant(color)
assign_colors_constant(t, color) == [t EXCEPT !.colors = [i \in DOMAIN t.x |-> color]]

\* np.inf, the default end_time: above every time of the model
Inf == 3

\* ax.plot(self.x[i:i+2], self.y[i:i+2], c=self.colors[i]) for the loop
\* variable i, which counts from 0
Segment(t, i) ==
    [x |-> <<t.x[i + 1], t.x[i + 2]>>, y |-> <<t.y[i + 1], t.y[i + 2]>>,
     c |-> t.colors[i + 1]]

\* for i in range(len(self.x) - 2), from i on: continue before start_time,
\* break after end_time; the segments drawn, in order
RECURSIVE TrajectoryLoop(_, _, _, _)
TrajectoryLoop(t, i, start_time, end_time) ==
    IF i >= Len(t.x) - 2 THEN <<>>
    ELSE IF t.time[i + 1] < start_time THEN TrajectoryLoop(t, i + 1, start_time, end_time)
    ELSE IF t.time[i + 2] > end_time THEN <<>>
    ELSE <<Segment(t, i)>> \o TrajectoryLoop(t, i + 1, start_time, end_time)

\* Trajectory.plot(ax, start_time, end_time): the segments drawn on ax
TrajectoryPlot(t, start_time, end_time) ==
    IF Len(t.x) < 2 THEN <<>> ELSE TrajectoryLoop(t, 0, start_time, end_time)

(***************************************************************************)
(* The state machine.  pc is "constructed" before the linking pass has     *)
(* run, "linked" once it has completed, "raised" when it raised; ret is    *)
(* the outcome of the last call.                                           *)
(***************************************************************************)
Return(op, target, exc, val) == [op |-> op, target |-> target, exc |-> exc, val |-> val]

InitGlobals ==
    /\ LANE_MARKINGS_STYLE = EUR_STYLE
    /\ PLOT_STOP_LINES = TRUE
    /\ STRIPE_WIDTH_SCALE_FACTOR = 1
    /\ pc = "constructed"
    /\ runs = 0
    /\ ret = Return("__init__", <<>>, NoException, <<>>)
    /\ trajectory = Trajectory(<<"veh">>)

Constructed(n) ==
    /\ edges = n.edges
    /\ junctions = n.junctions
    /\ connections = n.connections

Init == InitGlobals /\ \E n \in LinkNetworks \cup WalkNetworks : Constructed(n)

InitMark == InitGlobals /\ \E n \in MarkNetworks : Constructed(n)

InitOffsets == InitGlobals /\ \E n \in OffsetNetworks : Constructed(n)

\* Net._link_objects, the whole pass
Link ==
    /\ pc \in {"constructed", "linked"}
    /\ runs < MaxLinkRuns
    /\ LET m == LinkObjects([edges |-> edges, junctions |-> junctions,
                             connections |-> connections, exc |-> NoException])
       IN  /\ edges' = m.edges
           /\ junctions' = m.junctions
           /\ connections' = m.connections
           /\ pc' = IF m.exc = NoException THEN "linked" ELSE "raised"
           /\ ret' = Return("_link_objects", <<>>, m.exc, <<>>)
    /\ runs' = runs + 1
    /\ UNCHANGED <<LANE_MARKINGS_STYLE, PLOT_STOP_LINES, STRIPE_WIDTH_SCALE_FACTOR,
                   trajectory>>

\* the lane references of the network
LaneRefs == UNION {{<<e, l>> : l \in DOMAIN edges[e].lanes} : e \in DOMAIN edges}

\* Frame of a derivation that sets the stripe width scale back to 1, as the
\* network-wide operations do
Frame_ResetsScale ==
    /\ STRIPE_WIDTH_SCALE_FACTOR' = 1
    /\ UNCHANGED <<edges, junctions, connections, LANE_MARKINGS_STYLE, PLOT_STOP_LINES,
                   pc, runs, trajectory>>

\* what a derivation leaves unchanged: it assigns to no attribute and to no
\* global
Frame == UNCHANGED <<edges, junctions, connections, LANE_MARKINGS_STYLE, PLOT_STOP_LINES,
                     STRIPE_WIDTH_SCALE_FACTOR, pc, runs, trajectory>>

\* a call of lane.lane_type()
CallLaneType ==
    /\ pc = "linked"
    /\ \E lane \in LaneRefs :
          ret' = Return("lane_type", lane, NoException, LaneType(edges, lane))
    /\ Frame

\* a call of lane._requires_stop_line()
CallRequiresStopLine ==
    /\ pc = "linked"
    /\ \E lane \in LaneRefs :
          LET r == RequiresStopLine(edges, junctions, lane)
          IN  ret' = Return("_requires_stop_line", lane, r.exc, r.val)
    /\ Frame

\* a call of lane.get_stop_line_locations()
CallGetStopLineLocations ==
    /\ pc = "linked"
    /\ \E lane \in LaneRefs :
          ret' = Return("get_stop_line_locations", lane, NoException,
                        GetStopLineLocations(edges, lane))
    /\ Frame

\* a call of lane._guess_lane_markings()
CallGuessLaneMarkings ==
    /\ pc = "linked"
    /\ \E lane \in LaneRefs :
          LET r == GuessLaneMarkings(edges, junctions, lane, LANE_MARKINGS_STYLE,
                                     PLOT_STOP_LINES, STRIPE_WIDTH_SCALE_FACTOR)
          IN  ret' = Return("_guess_lane_markings", lane, r.exc, r.val)
    /\ Frame

\* a call of connection._generate_shape()
CallGenerateShape ==
    /\ pc = "linked"
    /\ \E c \in DOMAIN connections :
          LET r == GenerateShape(edges, connections[c])
          IN  ret' = Return("_generate_shape", c, r.exc, r.val)
    /\ Frame

\* the module globals
Globals ==
    [style |-> LANE_MARKINGS_STYLE, plot_stop_lines |-> PLOT_STOP_LINES,
     scale |-> STRIPE_WIDTH_SCALE_FACTOR]

\* the globals after the step are g
SetGlobals(g) ==
    /\ LANE_MARKINGS_STYLE' = g.style
    /\ PLOT_STOP_LINES' = g.plot_stop_lines
    /\ STRIPE_WIDTH_SCALE_FACTOR' = g.scale

\* the styles and stop line toggles a caller passes; "None" is an omitted
\* argument, "GBR" a style that is not supported
Styles == {"None", USA_STYLE, EUR_STYLE, "GBR"}

Toggles == {"None", "True", "False"}

\* the stripe width scale factors a caller passes: the default, and the one
\* of the module's own demonstration
Factors == {1, 3}

\* the calls of set_style(style, plot_stop_lines) a caller makes: with a
\* style, with a toggle, with an unsupported style and a toggle
StyleCalls ==
    {<<USA_STYLE, "None">>, <<EUR_STYLE, "None">>, <<"None", "True">>, <<"None", "False">>,
     <<"GBR", "True">>}

\* a call of set_style(style, plot_stop_lines)
SetStyle ==
    /\ \E call \in StyleCalls :
          LET r == set_style(Globals, call[1], call[2])
          IN  /\ SetGlobals(r.g)
              /\ ret' = Return("set_style", call, r.exc, <<>>)
    /\ UNCHANGED <<edges, junctions, connections, pc, runs, trajectory>>

\* a call of set_stripe_width_scale(factor)
SetStripeWidthScale ==
    /\ \E factor \in Factors :
          /\ SetGlobals(set_stripe_width_scale(Globals, factor))
          /\ ret' = Return("set_stripe_width_scale", factor, NoException, <<>>)
    /\ UNCHANGED <<edges, junctions, connections, pc, runs, trajectory>>

\* the calls of generate_obj_text(style, stripe_width_scale) a caller makes:
\* with the defaults, with a style and a scale, with an unsupported style
ExportCalls ==
    {<<"None", 1>>, <<EUR_STYLE, 1>>, <<USA_STYLE, 3>>, <<"GBR", 3>>}

\* a call of net.generate_obj_text(style, stripe_width_scale)
GenerateObjText ==
    /\ pc = "linked"
    /\ \E call \in ExportCalls :
          \E r \in {generate_obj_text(edges, junctions, connections, Globals,
                                      call[1], call[2])} :
              /\ SetGlobals(r.g)
              /\ ret' = Return("generate_obj_text", call, r.exc, r.val)
    /\ UNCHANGED <<edges, junctions, connections, pc, runs, trajectory>>

\* the calls of plot(style, stripe_width_scale, plot_stop_lines) a caller
\* makes: with the defaults, the one of the module's own demonstration, with
\* the stop line toggle, with an unsupported style
PlotCalls ==
    {<<"None", 1, "None">>, <<USA_STYLE, 3, "None">>, <<EUR_STYLE, 1, "True">>,
     <<"None", 3, "False">>, <<"GBR", 1, "None">>, <<"GBR", 3, "False">>}

\* a call of net.plot(style, stripe_width_scale, plot_stop_lines)
Plot ==
    /\ pc = "linked"
    /\ \E call \in PlotCalls :
          \E r \in {plot(edges, junctions, Globals, call[1], call[2], call[3])} :
              /\ SetGlobals(r.g)
              /\ ret' = Return("plot", call, r.exc, r.val)
    /\ UNCHANGED <<edges, junctions, connections, pc, runs, trajectory>>

Next ==
    \/ Link
    \/ CallLaneType
    \/ CallRequiresStopLine
    \/ CallGetStopLineLocations
    \/ CallGuessLaneMarkings
    \/ CallGenerateShape
    \/ SetStyle
    \/ SetStripeWidthScale
    \/ GenerateObjText
    \/ Plot

\* a call of junction.get_request_by_index(index)
CallGetRequestByIndex ==
    /\ \E j \in DOMAIN junctions : \E index \in 0..Len(junctions[j].intLane_ids) :
          LET p == GetRequestByIndex(junctions[j], index)
          IN  ret' = IF p = 0
                     THEN Return("get_request_by_index", <<j, index>>, "IndexError", <<>>)
                     ELSE Return("get_request_by_index", <<j, index>>, NoException,
                                 junctions[j].requests[p])
    /\ Frame

\* the lane ids the junction lookup is called with: the ids the junction
\* lists, and the via ids of the connections, which is what the linking
\* pass passes (None for a connection without via)
LaneIdArguments(j) ==
    SeqToSet(junctions[j].intLane_ids) \cup {connections[c].via_id : c \in DOMAIN connections}

\* a call of junction.get_request_by_int_lane(lane_id)
CallGetRequestByIntLane ==
    /\ \E j \in DOMAIN junctions : \E lane_id \in LaneIdArguments(j) :
          LET r == GetRequestByIntLane(junctions[j], lane_id)
          IN  ret' = IF r.exc # NoException
                     THEN Return("get_request_by_int_lane", <<j, lane_id>>, r.exc, <<>>)
                     ELSE Return("get_request_by_int_lane", <<j, lane_id>>, NoException,
                                 junctions[j].requests[r.val])
    /\ Frame

\* the junction lookups called on their own, before and after linking
NextLookup ==
    \/ Link
    \/ CallGetRequestByIndex
    \/ CallGetRequestByIntLane

\* the times, positions and colours of the points that are appended
Times == {0, 1, 2}
Positions == {<<0, 0>>, <<1, 2>>}
Colors == {"#000000", "r"}

\* a call of trajectory.append_point(time, x, y, color=color)
AppendPoint ==
    /\ Len(trajectory.x) < MaxPoints
    /\ \E time \in Times, position \in Positions, color \in Colors :
          trajectory' = append_point(trajectory, time, position[1], position[2], color)
    /\ ret' = Return("append_point", <<>>, NoException, <<>>)
    /\ UNCHANGED <<edges, junctions, connections, LANE_MARKINGS_STYLE, PLOT_STOP_LINES,
                   STRIPE_WIDTH_SCALE_FACTOR, pc, runs>>

\* a call of trajectory.assign_colors_constant(color)
AssignColorsConstant ==
    /\ \E color \in Colors : trajectory' = assign_colors_constant(trajectory, color)
    /\ ret' = Return("assign_colors_constant", <<>>, NoException, <<>>)
    /\ UNCHANGED <<edges, junctions, connections, LANE_MARKINGS_STYLE, PLOT_STOP_LINES,
                   STRIPE_WIDTH_SCALE_FACTOR, pc, runs>>

\* the time windows of the calls of plot: the default one and narrower ones
StartTimes == {0, 1}
EndTimes == {1, Inf}

\* a call of trajectory.plot(ax, start_time, end_time)
CallTrajectoryPlot ==
    /\ \E start_time \in StartTimes, end_time \in EndTimes :
          ret' = Return("Trajectory.plot", <<start_time, end_time>>, NoException,
                        TrajectoryPlot(trajectory, start_time, end_time))
    /\ Frame

\* the operations of a trajectory
NextTrajectory ==
    \/ AppendPoint
    \/ AssignColorsConstant
    \/ CallTrajectoryPlot

\* a new trajectory, and no network
InitTrajectory ==
    /\ InitGlobals
    /\ Constructed([edges |-> <<>>, junctions |-> <<>>, connections |-> <<>>])

Spec == Init /\ [][Next]_vars

SpecMark == InitMark /\ [][Next]_vars

SpecOffsets == InitOffsets /\ [][Next]_vars

SpecLookup == Init /\ [][NextLookup]_vars

SpecTrajectory == InitTrajectory /\ [][NextTrajectory]_vars

(***************************************************************************)
(* Notions the properties below are stated with.                           *)
(***************************************************************************)
\* the type of the junction the lane's parent edge leads to
DestinationType(lane) == junctions[edges[lane[1]].to_junction].type

HasDestination(lane) == edges[lane[1]].to_junction # 0

\* the responses of the requests in the lane's request list
ResponsesOf(lane) ==
    {junctions[r[1]].requests[r[2]].response :
        r \in SeqToSet(LaneAt(edges, lane).requests)}

\* the requests in the lane's request list
RequestsOf(lane) ==
    {junctions[r[1]].requests[r[2]] : r \in SeqToSet(LaneAt(edges, lane).requests)}

\* the stop offset declarations that apply to the lane: its own, else its
\* edge's
ApplicableOffsets(lane) ==
    IF LaneAt(edges, lane).stop_offsets # <<>> THEN LaneAt(edges, lane).stop_offsets
    ELSE edges[lane[1]].stop_offsets

\* how many markings of the list have the purpose
CountPurpose(markings, purpose) ==
    Cardinality({i \in DOMAIN markings : markings[i].purpose = purpose})

\* a call of the operation on a lane has returned
Returned(op) == ret.op = op /\ ret.exc = NoException

(***************************************************************************)
(* C1.  Running the linking pass a second time on a linked network leaves  *)
(* every resolved reference as the first run left it: the junctions of the *)
(* edges, the incLanes and intLanes of the junctions, the connection and   *)
(* request lists of the lanes, the lanes and edges of the connections.     *)
(***************************************************************************)
SameResolvedReferences ==
    /\ \A e \in DOMAIN edges :
          /\ edges'[e].from_junction = edges[e].from_junction
          /\ edges'[e].to_junction = edges[e].to_junction
          /\ \A l \in DOMAIN edges[e].lanes :
                /\ edges'[e].lanes[l].incoming_connections
                      = edges[e].lanes[l].incoming_connections
                /\ edges'[e].lanes[l].outgoing_connections
                      = edges[e].lanes[l].outgoing_connections
                /\ edges'[e].lanes[l].requests = edges[e].lanes[l].requests
    /\ \A j \in DOMAIN junctions :
          /\ junctions'[j].incLanes = junctions[j].incLanes
          /\ junctions'[j].intLanes = junctions[j].intLanes
    /\ \A c \in DOMAIN connections :
          /\ connections'[c].from_edge = connections[c].from_edge
          /\ connections'[c].to_edge = connections[c].to_edge
          /\ connections'[c].from_lane = connections[c].from_lane
          /\ connections'[c].to_lane = connections[c].to_lane
          /\ connections'[c].via_lane = connections[c].via_lane

C1_LinkIsIdempotent ==
    [][(pc = "linked" /\ runs' = runs + 1 /\ pc' = "linked") => SameResolvedReferences]_vars

(***************************************************************************)
(* C2.  The linking pass never raises: whatever the identifiers of the     *)
(* junctions and connections resolve to, it completes.                     *)
(***************************************************************************)
C2_LinkNeverRaises == ret.op = "_link_objects" => ret.exc = NoException

(***************************************************************************)
(* C3.  _requires_stop_line() returns False for every lane whose           *)
(* destination junction has type "internal" or "zipper", whatever the      *)
(* requests of the lane.                                                   *)
(***************************************************************************)
C3_NoStopLineIntoInternalOrZipper ==
    /\ (ret.op = "_requires_stop_line" /\ HasDestination(ret.target)
        /\ DestinationType(ret.target) \in {"internal", "zipper"})
       => (ret.exc = NoException /\ ret.val = FALSE)
    /\ \A lane \in LaneRefs :
          (HasDestination(lane) /\ DestinationType(lane) \in {"internal", "zipper"})
          => RequiresStopLine(edges, junctions, lane) = [exc |-> NoException, val |-> FALSE]

\* the call returned False for a lane into a zipper junction that has a
\* request with a "1" in its response
C3_Witness ==
    /\ Returned("_requires_stop_line")
    /\ HasDestination(ret.target)
    /\ DestinationType(ret.target) = "zipper"
    /\ \E r \in ResponsesOf(ret.target) : \E k \in DOMAIN r : r[k] = "1"
    /\ ret.val = FALSE

(***************************************************************************)
(* C4.  The claim as stated: for a destination junction that is none of    *)
(* internal, zipper, always_stop, _requires_stop_line() is true iff some   *)
(* request of the lane has a "1" at the position of its response that      *)
(* corresponds to the request's own movement (the character at the         *)
(* request's index).                                                       *)
(***************************************************************************)
OrdinaryDestination(lane) ==
    /\ HasDestination(lane)
    /\ DestinationType(lane) \notin {"internal", "zipper", "always_stop"}

OneAtOwnPosition(request) ==
    /\ request.index + 1 \in DOMAIN request.response
    /\ request.response[request.index + 1] = "1"

C4_TrueIffOneAtOwnPosition ==
    (ret.op = "_requires_stop_line" /\ OrdinaryDestination(ret.target))
    => (ret.exc = NoException
        /\ ret.val = (\E r \in RequestsOf(ret.target) : OneAtOwnPosition(r)))

(***************************************************************************)
(* C4, amended.  For such a destination junction _requires_stop_line() is  *)
(* true iff some request of the lane has a "1" at any position of its      *)
(* response.                                                               *)
(***************************************************************************)
C4_TrueIffOneAnywhere ==
    (ret.op = "_requires_stop_line" /\ OrdinaryDestination(ret.target))
    => (ret.exc = NoException
        /\ ret.val = (\E r \in ResponsesOf(ret.target) : \E k \in DOMAIN r : r[k] = "1"))

\* the call returned True for a lane whose only "1" is at another position
\* than the request's own
C4_Witness ==
    /\ Returned("_requires_stop_line")
    /\ OrdinaryDestination(ret.target)
    /\ RequestsOf(ret.target) # {}
    /\ \A r \in RequestsOf(ret.target) : ~OneAtOwnPosition(r)
    /\ ret.val = TRUE

(***************************************************************************)
(* C5.  get_stop_line_locations() contains 0 whenever the applicable stop  *)
(* offset declarations together do not cover every class the lane permits; *)
(* without any declaration on lane and edge it is exactly [0] for a lane   *)
(* that permits at least one class.                                        *)
(***************************************************************************)
\* some class the lane permits is permitted by none of the declarations
NotCovered(lane) ==
    \E c \in Vocabulary :
        /\ Member(LaneAt(edges, lane).allows, c)
        /\ \A i \in DOMAIN ApplicableOffsets(lane) :
              ~Member(ApplicableOffsets(lane)[i].vClasses, c)

C5_ZeroWhenNotCovered ==
    ret.op = "get_stop_line_locations"
    => /\ ret.exc = NoException
       /\ NotCovered(ret.target) => \E i \in DOMAIN ret.val : ret.val[i] = 0
       /\ (ApplicableOffsets(ret.target) = <<>> /\ LaneAt(edges, ret.target).allows # {})
          => ret.val = <<0>>

\* the call appended 0 to the offsets of declarations that are all away from
\* the lane end and leave a class of the lane uncovered
C5_Witness ==
    /\ Returned("get_stop_line_locations")
    /\ ApplicableOffsets(ret.target) # <<>>
    /\ \A i \in DOMAIN ApplicableOffsets(ret.target) : ApplicableOffsets(ret.target)[i].value # 0
    /\ NotCovered(ret.target)
    /\ Len(ret.val) = Len(ApplicableOffsets(ret.target)) + 1
    /\ ret.val[Len(ret.val)] = 0

(***************************************************************************)
(* C6.  _generate_shape() of a connection that declares a via id raises    *)
(* the ReferenceError whenever its via lane, from lane or to lane is       *)
(* unresolved, and returns no polygon.                                     *)
(***************************************************************************)
Unresolved(cxn) == cxn.via_lane = NoLane \/ cxn.from_lane = NoLane \/ cxn.to_lane = NoLane

C6_SpliceRaisesWhenUnresolved ==
    (ret.op = "_generate_shape" /\ connections[ret.target].via_id # NoId
     /\ Unresolved(connections[ret.target]))
    => (ret.exc = "ReferenceError" /\ ret.val = <<>>)

\* the call raised for a connection whose via id did not resolve while its
\* from lane and to lane did
C6_Witness ==
    /\ ret.op = "_generate_shape"
    /\ connections[ret.target].via_id # NoId
    /\ connections[ret.target].via_lane = NoLane
    /\ connections[ret.target].from_lane # NoLane
    /\ connections[ret.target].to_lane # NoLane
    /\ ret.exc = "ReferenceError"

(***************************************************************************)
(* C7.  The claim as stated: on a two-lane edge (indices 0 and 1) into an  *)
(* always_stop junction, with stop lines enabled and no stop offset        *)
(* declarations, _requires_stop_line() is true for both lanes and the      *)
(* markings of each lane contain exactly one "stopline".                   *)
(***************************************************************************)
TwoLaneIntoAlwaysStop(lane) ==
    /\ Len(edges[lane[1]].lanes) = 2
    /\ {edges[lane[1]].lanes[l].index : l \in 1..2} = {0, 1}
    /\ HasDestination(lane)
    /\ DestinationType(lane) = "always_stop"
    /\ edges[lane[1]].stop_offsets = <<>>
    /\ \A l \in 1..2 : edges[lane[1]].lanes[l].stop_offsets = <<>>

C7_OneStopLinePerLane ==
    /\ (ret.op = "_requires_stop_line" /\ TwoLaneIntoAlwaysStop(ret.target))
       => (ret.exc = NoException /\ ret.val = TRUE)
    /\ (ret.op = "_guess_lane_markings" /\ TwoLaneIntoAlwaysStop(ret.target)
        /\ PLOT_STOP_LINES)
       => (ret.exc = NoException /\ CountPurpose(ret.val, "stopline") = 1)

(***************************************************************************)
(* C7, amended.  ... and the markings of each lane contain exactly one     *)
(* "stopline" provided the edge's function is neither "internal" nor       *)
(* "crossing" and the lane permits at least one class and not exactly the  *)
(* pedestrian, the ship or the rail class.                                 *)
(***************************************************************************)
BearsStopLine(lane) ==
    /\ edges[lane[1]].function \notin {"internal", "crossing"}
    /\ LaneAt(edges, lane).allows \notin {{}, {"pedestrian"}, {"ship"}, {"rail"}}

C7_OneStopLinePerVehicleLane ==
    /\ (ret.op = "_requires_stop_line" /\ TwoLaneIntoAlwaysStop(ret.target))
       => (ret.exc = NoException /\ ret.val = TRUE)
    /\ (ret.op = "_guess_lane_markings" /\ TwoLaneIntoAlwaysStop(ret.target)
        /\ PLOT_STOP_LINES /\ BearsStopLine(ret.target))
       => (ret.exc = NoException /\ CountPurpose(ret.val, "stopline") = 1)

\* the markings of the second lane of such an edge, whose requests have no
\* "1", were derived with one "stopline"
C7_Witness ==
    /\ Returned("_guess_lane_markings")
    /\ TwoLaneIntoAlwaysStop(ret.target)
    /\ PLOT_STOP_LINES
    /\ BearsStopLine(ret.target)
    /\ LaneAt(edges, ret.target).index = 1
    /\ \A r \in ResponsesOf(ret.target) : \A k \in DOMAIN r : r[k] = "0"
    /\ CountPurpose(ret.val, "stopline") = 1

(***************************************************************************)
(* C8.  A lane that permits exactly the pedestrian class on an edge of     *)
(* function "crossing" has lane_type() "crosswalk" and exactly one         *)
(* marking: white, dashed, of purpose "crossing" -- under both styles,     *)
(* with stop lines on or off, whatever the destination junction.           *)
(***************************************************************************)
PedestrianCrossing(lane) ==
    /\ edges[lane[1]].function = "crossing"
    /\ LaneAt(edges, lane).allows = {"pedestrian"}

C8_CrosswalkHasOneMarking ==
    /\ (ret.op = "lane_type" /\ PedestrianCrossing(ret.target))
       => (ret.exc = NoException /\ ret.val = "crosswalk")
    /\ (ret.op = "_guess_lane_markings" /\ PedestrianCrossing(ret.target))
       => /\ ret.exc = NoException
          /\ Len(ret.val) = 1
          /\ ret.val[1].purpose = "crossing"
          /\ ret.val[1].color = "w"
          /\ ret.val[1].dashes[2] > 0

\* the markings of a crosswalk into an always_stop junction were derived
\* under the USA style with stop lines on
C8_Witness ==
    /\ Returned("_guess_lane_markings")
    /\ PedestrianCrossing(ret.target)
    /\ HasDestination(ret.target)
    /\ DestinationType(ret.target) = "always_stop"
    /\ LANE_MARKINGS_STYLE = USA_STYLE
    /\ PLOT_STOP_LINES
    /\ Len(ret.val) = 1

(***************************************************************************)
(* C9.  For every lane, under the stop line toggle and the stripe width    *)
(* scale in effect, the markings derived under EUR and under USA have the  *)
(* same number, the same purposes in the same order, the same dash         *)
(* patterns and line widths; a marking that is not "center", "lane" or     *)
(* "outer" (a "stopline", a "crossing") is the same in both; and both      *)
(* derivations raise or neither does.                                      *)
(***************************************************************************)
UnderStyle(lane, style) ==
    GuessLaneMarkings(edges, junctions, lane, style, PLOT_STOP_LINES,
                      STRIPE_WIDTH_SCALE_FACTOR)

C9_StyleChangesColorAndPlacementOnly ==
    \A lane \in LaneRefs :
        LET eur == UnderStyle(lane, EUR_STYLE)
            usa == UnderStyle(lane, USA_STYLE)
        IN  /\ eur.exc = usa.exc
            /\ Len(eur.val) = Len(usa.val)
            /\ \A i \in DOMAIN eur.val :
                  /\ eur.val[i].purpose = usa.val[i].purpose
                  /\ eur.val[i].dashes = usa.val[i].dashes
                  /\ eur.val[i].linewidth = usa.val[i].linewidth
                  /\ eur.val[i].purpose \notin {"center", "lane", "outer"}
                     => eur.val[i] = usa.val[i]

\* the markings of a lane were derived under the USA style: a "lane" marking
\* that is not default-dashed, an "outer" marking and a "stopline"; under
\* the EUR style the list would differ
C9_Witness ==
    /\ Returned("_guess_lane_markings")
    /\ LANE_MARKINGS_STYLE = USA_STYLE
    /\ ret.val = UnderStyle(ret.target, USA_STYLE).val
    /\ \E i \in DOMAIN ret.val :
          ret.val[i].purpose = "lane" /\ ret.val[i].dashes # <<300, 900>>
    /\ CountPurpose(ret.val, "outer") = 1
    /\ CountPurpose(ret.val, "stopline") = 1
    /\ \E lane \in LaneRefs :
          /\ UnderStyle(lane, USA_STYLE).exc = NoException
          /\ UnderStyle(lane, USA_STYLE) # UnderStyle(lane, EUR_STYLE)

(***************************************************************************)
(* C10.  For all Allowances A and B the union of A and B is a superset of  *)
(* A and of B; in particular the Allowance accrued by                      *)
(* get_stop_line_locations() over the declarations is a superset of the    *)
(* Allowance of each of them.                                              *)
(***************************************************************************)
\* the Allowances of the network: of its lanes and of its stop offsets
AllowancesOfNetwork ==
    {Allowance(<<"none">>, <<>>), Allowance(<<"all">>, <<>>)}
    \cup {LaneAt(edges, lane).allows : lane \in LaneRefs}
    \cup UNION {{LaneAt(edges, lane).stop_offsets[i].vClasses :
                    i \in DOMAIN LaneAt(edges, lane).stop_offsets} : lane \in LaneRefs}
    \cup UNION {{edges[e].stop_offsets[i].vClasses : i \in DOMAIN edges[e].stop_offsets} :
                    e \in DOMAIN edges}

UnsupportedStyles == Styles \ {"None", USA_STYLE, EUR_STYLE}

C11_UnsupportedStyleRejected ==
    /\ \A style \in UnsupportedStyles, plot_stop_lines \in Toggles :
          set_style(Globals, style, plot_stop_lines)
             = [exc |-> "IndexError", g |-> Globals]
    /\ pc = "linked"
       => \A style \in UnsupportedStyles, stripe_width_scale \in Factors :
             /\ generate_obj_text(edges, junctions, connections, Globals,
                                  style, stripe_width_scale)
                   = [exc |-> "IndexError", g |-> Globals, val |-> <<>>]
             /\ \A plot_stop_lines \in Toggles :
                   plot(edges, junctions, Globals, style, stripe_width_scale, plot_stop_lines)
                      = [exc |-> "IndexError", g |-> Globals, val |-> <<>>]
    /\ (ret.op \in {"set_style", "plot", "generate_obj_text"} /\ ret.exc = "IndexError")
       => ret.val = <<>>

\* plot was given an unsupported style after the globals had been set to
\* other values than the initial ones, and they are still in effect
C11_Witness ==
    /\ ret.op = "plot"
    /\ ret.exc = "IndexError"
    /\ ret.val = <<>>
    /\ LANE_MARKINGS_STYLE = USA_STYLE
    /\ PLOT_STOP_LINES = FALSE
    /\ STRIPE_WIDTH_SCALE_FACTOR = 3

(***************************************************************************)
(* C12.  A call of _guess_lane_markings, get_stop_line_locations,          *)
(* _requires_stop_line, lane_type or _generate_shape leaves the edges,     *)
(* lanes, junctions, requests, connections and the global configuration    *)
(* unchanged, and a second call on the state it leaves returns what it     *)
(* returned.                                                               *)
(***************************************************************************)
DerivationOps ==
    {"lane_type", "_requires_stop_line", "get_stop_line_locations", "_guess_lane_markings",
     "_generate_shape"}

\* the outcome of the call of the derivation on the target in the given state
Recomputed(es, js, cs, g, op, target) ==
    CASE op = "lane_type" -> Return(op, target, NoException, LaneType(es, target))
      [] op = "_requires_stop_line"
            -> Return(op, target, RequiresStopLine(es, js, target).exc,
                      RequiresStopLine(es, js, target).val)
      [] op = "get_stop_line_locations"
            -> Return(op, target, NoException, GetStopLineLocations(es, target))
      [] op = "_guess_lane_markings"
            -> Return(op, target,
                      GuessLaneMarkings(es, js, target, g.style, g.plot_stop_lines, g.scale).exc,
                      GuessLaneMarkings(es, js, target, g.style, g.plot_stop_lines, g.scale).val)
      [] op = "_generate_shape"
            -> Return(op, target, GenerateShape(es, cs[target]).exc,
                      GenerateShape(es, cs[target]).val)

C12_DerivationsMutateNothing ==
    [][ret'.op \in DerivationOps
       => /\ UNCHANGED <<edges, junctions, connections, LANE_MARKINGS_STYLE, PLOT_STOP_LINES,
                         STRIPE_WIDTH_SCALE_FACTOR>>
          /\ ret' = Recomputed(edges', junctions', connections', Globals',
                               ret'.op, ret'.target)]_vars

\* the markings of a lane with requests were derived with a stop line, under
\* a configuration that is not the initial one, and deriving them again
\* gives the same list
C12_Witness ==
    /\ Returned("_guess_lane_markings")
    /\ LaneAt(edges, ret.target).requests # <<>>
    /\ CountPurpose(ret.val, "stopline") = 1
    /\ LANE_MARKINGS_STYLE = USA_STYLE
    /\ STRIPE_WIDTH_SCALE_FACTOR = 3
    /\ ret = Recomputed(edges, junctions, connections, Globals, ret.op, ret.target)

(***************************************************************************)
(* C13.  An object whose derivation fails fails alone: whenever the style  *)
(* is supported, Net.generate_obj_text returns the objects, and Net.plot   *)
(* draws the shapes, of every lane (of an edge that is drawn) whose own    *)
(* markings can be derived -- also when the network has a connection with  *)
(* a via id whose from lane, to lane or via lane is unresolved.            *)
(***************************************************************************)
\* the lanes the export emits a body for
ExportedLanes ==
    {lane \in LaneRefs : edges[lane[1]].function \notin {"internal", "crossing", "walkingarea"}}

\* the markings of the lane can be derived under the globals g
MarkingsDerivable(lane, g) ==
    GuessLaneMarkings(edges, junctions, lane, g.style, g.plot_stop_lines, g.scale).exc
       = NoException

C13_FailuresAreIndependent ==
    pc = "linked"
    => \A style \in Styles \ UnsupportedStyles, stripe_width_scale \in Factors :
          /\ LET r == generate_obj_text(edges, junctions, connections, Globals,
                                        style, stripe_width_scale)
             IN  \A lane \in ExportedLanes :
                    MarkingsDerivable(lane, r.g)
                    => \E i \in DOMAIN r.val : r.val[i].name = LaneAt(edges, lane).id
          /\ \A plot_stop_lines \in Toggles :
                LET r == plot(edges, junctions, Globals, style, stripe_width_scale,
                              plot_stop_lines)
                IN  \A lane \in LaneRefs :
                       (edges[lane[1]].function # "internal" /\ MarkingsDerivable(lane, r.g))
                       => \E i \in DOMAIN r.val :
                             r.val[i].artist = "patch" /\ r.val[i].lane = lane

(***************************************************************************)
(* C14.  When the destination junction id of an edge does not resolve,     *)
(* linking completes and leaves to_junction unset, and a later call of     *)
(* _requires_stop_line or _guess_lane_markings for a lane of that edge     *)
(* returns, or raises the documented missing-reference condition (the      *)
(* ReferenceError), not another error.                                     *)
(***************************************************************************)
\* the edge of the lane names a destination junction that does not exist
DanglingDestination(e) ==
    /\ edges[e].to_junction_id # NoId
    /\ JunctionsGet(junctions, edges[e].to_junction_id) = 0

C14_MissingJunctionToleratedOrReferenceError ==
    /\ (ret.op = "_link_objects" /\ \E e \in DOMAIN edges : DanglingDestination(e))
       => ret.exc = NoException
    /\ pc = "linked"
       => \A e \in DOMAIN edges : DanglingDestination(e) => edges[e].to_junction = 0
    /\ (ret.op \in {"_requires_stop_line", "_guess_lane_markings"}
        /\ DanglingDestination(ret.target[1]))
       => ret.exc \in {NoException, "ReferenceError"}

(***************************************************************************)
(* C15.  When every lookup of the linking pass for the lanes of the        *)
(* junctions and of the connections returns, the pass completes, and the   *)
(* request list of every resolved incoming lane of a non-internal junction *)
(* holds, for each outgoing connection with a via id in turn: the Request  *)
(* of the junction for the via lane if it has one; else the Requests for   *)
(* the via lanes of the connections that start at the via lane, those      *)
(* without a Request contributing nothing.                                 *)
(***************************************************************************)
\* the lookups of lanes by the linking pass return (no malformed lane id, no
\* lane index that its edge lacks)
LaneLookupsReturn ==
    /\ \A j \in DOMAIN junctions :
          junctions[j].type # "internal"
          => /\ \A k \in DOMAIN junctions[j].incLane_ids :
                   GetLane(edges, junctions[j].incLane_ids[k]).exc = NoException
             /\ \A k \in DOMAIN junctions[j].intLane_ids :
                   GetLane(edges, junctions[j].intLane_ids[k]).exc = NoException
    /\ \A c \in DOMAIN connections :
          LET cxn == connections[c]
              fe == EdgesGet(edges, cxn.from_edge_id)
              te == EdgesGet(edges, cxn.to_edge_id)
          IN  /\ cxn.via_id # NoId => GetLane(edges, cxn.via_id).exc = NoException
              /\ fe # 0 => EdgeGetLane(edges[fe], cxn.from_lane_index) # 0
              /\ te # 0 => EdgeGetLane(edges[te], cxn.to_lane_index) # 0

\* the junction has a Request for the lane id
HasRequestFor(j, lane_id) ==
    /\ lane_id # NoId
    /\ \E p \in DOMAIN junctions[j].intLane_ids :
          /\ junctions[j].intLane_ids[p] = lane_id
          /\ \A q \in 1..(p - 1) : junctions[j].intLane_ids[q] # lane_id
          /\ \E i \in DOMAIN junctions[j].requests : junctions[j].requests[i].index = p - 1

\* the reference <<j, position>> of the Request of the junction for the lane id
RequestFor(j, lane_id) ==
    LET p == CHOOSE p \in DOMAIN junctions[j].intLane_ids :
                /\ junctions[j].intLane_ids[p] = lane_id
                /\ \A q \in 1..(p - 1) : junctions[j].intLane_ids[q] # lane_id
    IN  <<j, CHOOSE i \in DOMAIN junctions[j].requests :
                /\ junctions[j].requests[i].index = p - 1
                /\ \A h \in 1..(i - 1) : junctions[j].requests[h].index # p - 1>>

\* one level deeper: the Requests for the via lanes of the connections
RECURSIVE ExpectedDeeper(_, _, _)
ExpectedDeeper(j, cxns, i) ==
    IF i > Len(cxns) THEN <<>>
    ELSE (IF HasRequestFor(j, connections[cxns[i]].via_id)
          THEN <<RequestFor(j, connections[cxns[i]].via_id)>>
          ELSE <<>>) \o ExpectedDeeper(j, cxns, i + 1)

\* the request list the outgoing connections of an incoming lane give
RECURSIVE ExpectedRequests(_, _, _)
ExpectedRequests(j, cxns, i) ==
    IF i > Len(cxns) THEN <<>>
    ELSE LET via_id == connections[cxns[i]].via_id
         IN  (IF via_id = NoId THEN <<>>
              ELSE IF HasRequestFor(j, via_id) THEN <<RequestFor(j, via_id)>>
              ELSE ExpectedDeeper(j, GetConnectionsFromLane(connections, via_id), 1))
             \o ExpectedRequests(j, cxns, i + 1)

C15_RequestsFollowVia ==
    (runs = 1 /\ LaneLookupsReturn)
    => /\ pc = "linked"
       /\ \A j \in DOMAIN junctions :
             junctions[j].type # "internal"
             => \A k \in DOMAIN junctions[j].incLanes :
                   LET lane == junctions[j].incLanes[k]
                   IN  LaneAt(edges, lane).requests
                          = ExpectedRequests(j, GetConnectionsFromLane(
                                                   connections, LaneAt(edges, lane).id), 1)

(***************************************************************************)
(* C16.  lane_type() classifies a lane by the first test that applies, in  *)
(* this order: pedestrian only on a crossing edge is "crosswalk",          *)
(* pedestrian only otherwise (also without a parent edge) "pedestrian",    *)
(* bicycle only "bicycle", ship only "ship", authority only "authority",   *)
(* no class "none", passenger not permitted "no_passenger", else "other".  *)
(***************************************************************************)
LaneTags ==
    {"crosswalk", "pedestrian", "bicycle", "ship", "authority", "none", "no_passenger",
     "other"}

\* the tag of a permission set on an edge of the function ("None": no edge)
TagByPriority(allows, function) ==
    CASE allows = {"pedestrian"} /\ function = "crossing" -> "crosswalk"
      [] allows = {"pedestrian"} /\ function # "crossing" -> "pedestrian"
      [] allows = {"bicycle"} -> "bicycle"
      [] allows = {"ship"} -> "ship"
      [] allows = {"authority"} -> "authority"
      [] allows = {} -> "none"
      [] OTHER -> IF "passenger" \notin allows THEN "no_passenger" ELSE "other"

C16_LaneTypeByPriority ==
    /\ ret.op = "lane_type"
       => /\ ret.exc = NoException
          /\ ret.val \in LaneTags
          /\ ret.val = TagByPriority(LaneAt(edges, ret.target).allows,
                                     edges[ret.target[1]].function)
    /\ \A lane \in LaneRefs :
          lane_type(LaneAt(edges, lane).allows, "None")
             = TagByPriority(LaneAt(edges, lane).allows, "None")

\* a lane that permits several classes but not passenger vehicles was
\* classified: every earlier test was passed over
C16_Witness ==
    /\ Returned("lane_type")
    /\ ret.val = "no_passenger"
    /\ Cardinality(LaneAt(edges, ret.target).allows) > 1
    /\ "bicycle" \in LaneAt(edges, ret.target).allows

(***************************************************************************)
(* C17.  The marking list of a lane that is neither on an internal or      *)
(* crossing edge nor a ship or rail lane holds exactly one marking that is *)
(* "center" or "lane": "center" when the inverse lane index is 0, "lane"   *)
(* otherwise; and at most one "outer" marking, only when the lane index is *)
(* 0 and not when the lane permits pedestrians but not all classes.        *)
(***************************************************************************)
\* the lane gets the markings of the style
StyledLane(lane) ==
    /\ edges[lane[1]].function \notin {"internal", "crossing"}
    /\ LaneAt(edges, lane).allows \notin {{"ship"}, {"rail"}}

C17_CenterOrLaneAndOuter ==
    (Returned("_guess_lane_markings") /\ StyledLane(ret.target))
    => LET l == LaneAt(edges, ret.target)
           inner == InverseLaneIndex(edges, ret.target) = 0
       IN  /\ CountPurpose(ret.val, "center") = (IF inner THEN 1 ELSE 0)
           /\ CountPurpose(ret.val, "lane") = (IF inner THEN 0 ELSE 1)
           /\ CountPurpose(ret.val, "outer") <= 1
           /\ CountPurpose(ret.val, "outer") = 1
              => /\ l.index = 0
                 /\ ~(Member(l.allows, "pedestrian") /\ ~Member(l.allows, "all"))

\* the rightmost lane of a two-lane edge permits pedestrians and other
\* classes but not all: a "lane" marking and no "outer" marking
C17_Witness ==
    /\ Returned("_guess_lane_markings")
    /\ StyledLane(ret.target)
    /\ LaneAt(edges, ret.target).index = 0
    /\ Member(LaneAt(edges, ret.target).allows, "pedestrian")
    /\ ~Member(LaneAt(edges, ret.target).allows, "all")
    /\ Cardinality(LaneAt(edges, ret.target).allows) > 1
    /\ CountPurpose(ret.val, "lane") = 1
    /\ CountPurpose(ret.val, "outer") = 0

(***************************************************************************)
(* C18.  The "center" marking is solid.  The "lane" marking is solid when  *)
(* the lane and the adjacent lane differ in the bicycle permission, has    *)
(* the short dash when they agree on bicycles and differ on passenger      *)
(* vehicles, and the default dash when they agree on both.                 *)
(***************************************************************************)
\* the lane next to the lane, on its left
AdjacentLane(lane) ==
    edges[lane[1]].lanes[EdgeGetLane(edges[lane[1]], LaneAt(edges, lane).index + 1)]

Solid == <<10000, 0>>
ShortDash == <<100, 300>>
DefaultDash == <<300, 900>>

C18_DashesByPermissionDifference ==
    (Returned("_guess_lane_markings") /\ StyledLane(ret.target))
    => \A i \in DOMAIN ret.val :
          /\ ret.val[i].purpose = "center" => ret.val[i].dashes = Solid
          /\ ret.val[i].purpose = "lane"
             => LET a == LaneAt(edges, ret.target).allows
                    b == AdjacentLane(ret.target).allows
                IN  ret.val[i].dashes =
                       IF ("bicycle" \in a) # ("bicycle" \in b) THEN Solid
                       ELSE IF ("passenger" \in a) # ("passenger" \in b) THEN ShortDash
                       ELSE DefaultDash

(***************************************************************************)
(* C18 as the code has it: the short dash only when both lanes permit      *)
(* bicycles and differ on passenger vehicles; when neither permits         *)
(* bicycles and they differ on passenger vehicles the marking is solid.    *)
(***************************************************************************)
C18_ShortDashOnlyBetweenBicycleLanes ==
    (Returned("_guess_lane_markings") /\ StyledLane(ret.target))
    => \A i \in DOMAIN ret.val :
          /\ ret.val[i].purpose = "center" => ret.val[i].dashes = Solid
          /\ ret.val[i].purpose = "lane"
             => LET a == LaneAt(edges, ret.target).allows
                    b == AdjacentLane(ret.target).allows
                IN  ret.val[i].dashes =
                       IF ("bicycle" \in a) # ("bicycle" \in b) THEN Solid
                       ELSE IF ("passenger" \in a) = ("passenger" \in b) THEN DefaultDash
                       ELSE IF "bicycle" \in a THEN ShortDash
                       ELSE Solid

\* a solid "lane" marking between two lanes that both exclude bicycles and
\* differ on passenger vehicles
C18_Witness ==
    /\ Returned("_guess_lane_markings")
    /\ StyledLane(ret.target)
    /\ \E i \in DOMAIN ret.val : ret.val[i].purpose = "lane" /\ ret.val[i].dashes = Solid
    /\ "bicycle" \notin LaneAt(edges, ret.target).allows
    /\ "bicycle" \notin AdjacentLane(ret.target).allows
    /\ "passenger" \in LaneAt(edges, ret.target).allows
    /\ "passenger" \notin AdjacentLane(ret.target).allows

(***************************************************************************)
(* C19.  The marking list of a lane holds "stopline" markings if and only  *)
(* if stop lines are enabled, _requires_stop_line() is true and the lane   *)
(* permits neither pedestrians nor ships; then it holds one solid white    *)
(* "stopline" marking per entry of get_stop_line_locations(), otherwise    *)
(* none.                                                                   *)
(***************************************************************************)
\* _requires_stop_line() of the lane returns True
StopLineRequired(lane) ==
    /\ RequiresStopLine(edges, junctions, lane).exc = NoException
    /\ RequiresStopLine(edges, junctions, lane).val

\* every "stopline" marking of the list is solid and white
StopLinesSolidWhite(markings) ==
    \A i \in DOMAIN markings :
       markings[i].purpose = "stopline"
       => markings[i].color = "w" /\ markings[i].dashes = Solid

C19_StopLinesIffNeitherPedestrianNorShip ==
    Returned("_guess_lane_markings")
    => LET l == LaneAt(edges, ret.target)
           cond == /\ PLOT_STOP_LINES
                   /\ StopLineRequired(ret.target)
                   /\ ~Member(l.allows, "pedestrian")
                   /\ ~Member(l.allows, "ship")
       IN  /\ CountPurpose(ret.val, "stopline") > 0 <=> cond
           /\ CountPurpose(ret.val, "stopline")
                 = (IF cond THEN Len(GetStopLineLocations(edges, ret.target)) ELSE 0)
           /\ StopLinesSolidWhite(ret.val)

(***************************************************************************)
(* C19 as the code has it: the lanes without stop lines are those that     *)
(* permit only pedestrians, only ships or only rail vehicles and those of  *)
(* internal or crossing edges; every other lane, also one that permits     *)
(* pedestrians or ships among other classes, gets one solid white          *)
(* "stopline" marking per entry of get_stop_line_locations() when stop     *)
(* lines are enabled and _requires_stop_line() is true, and none else.     *)
(***************************************************************************)
C19_StopLinesUnlessPedestrianOrShipOnly ==
    Returned("_guess_lane_markings")
    => LET l == LaneAt(edges, ret.target)
           cond == /\ PLOT_STOP_LINES
                   /\ StopLineRequired(ret.target)
                   /\ edges[ret.target[1]].function \notin {"internal", "crossing"}
                   /\ l.allows \notin {{"pedestrian"}, {"ship"}, {"rail"}}
       IN  /\ CountPurpose(ret.val, "stopline")
                 = (IF cond THEN Len(GetStopLineLocations(edges, ret.target)) ELSE 0)
           /\ StopLinesSolidWhite(ret.val)

\* a lane that permits pedestrians among other classes has two stop line
\* locations and two "stopline" markings
C19_Witness ==
    /\ Returned("_guess_lane_markings")
    /\ Member(LaneAt(edges, ret.target).allows, "pedestrian")
    /\ Len(GetStopLineLocations(edges, ret.target)) = 2
    /\ CountPurpose(ret.val, "stopline") = 2
    /\ StopLinesSolidWhite(ret.val)

(***************************************************************************)
(* C20.  A lane of an edge whose function is internal, a ship lane and a   *)
(* rail lane have an empty marking list under every style, stop line       *)
(* toggle and stripe width, also when the destination junction is          *)
(* always_stop or unresolved.                                              *)
(***************************************************************************)
\* the lane is on an internal edge or permits only ships or only rail
Unmarked(lane) ==
    \/ edges[lane[1]].function = "internal"
    \/ LaneAt(edges, lane).allows \in {{"ship"}, {"rail"}}

C20_NoMarkingsOnInternalShipRail ==
    /\ (ret.op = "_guess_lane_markings" /\ Unmarked(ret.target))
       => ret.exc = NoException /\ ret.val = <<>>
    /\ pc = "linked"
       => \A lane \in LaneRefs :
             Unmarked(lane)
             => \A style \in {USA_STYLE, EUR_STYLE}, stop \in BOOLEAN, scale \in Factors :
                   GuessLaneMarkings(edges, junctions, lane, style, stop, scale)
                      = [exc |-> NoException, val |-> <<>>]

\* the markings of a ship lane whose edge names an unknown destination
\* junction were derived with stop lines enabled: the list is empty
C20_Witness ==
    /\ Returned("_guess_lane_markings")
    /\ ret.val = <<>>
    /\ LaneAt(edges, ret.target).allows = {"ship"}
    /\ edges[ret.target[1]].function = "normal"
    /\ DanglingDestination(ret.target[1])
    /\ PLOT_STOP_LINES

(***************************************************************************)
(* C21.  get_stop_line_locations() works from the declarations of the lane *)
(* when it has any, whatever its edge declares, and from those of the edge *)
(* otherwise.  The list starts with the offsets of these declarations in   *)
(* their order; at most one 0 follows them, and only when none of them has *)
(* the offset 0.                                                           *)
(***************************************************************************)
\* what an edge may declare instead of what it declares
OtherEdgeOffsets ==
    {<<>>, <<StopOffset(0, <<>>, <<>>)>>,
     <<StopOffset(MaxStopOffset, <<"passenger">>, <<>>), StopOffset(0, <<>>, <<>>)>>}

C21_OwnDeclarationsElseEdge ==
    ret.op = "get_stop_line_locations"
    => LET l == LaneAt(edges, ret.target)
           chosen == IF l.stop_offsets # <<>> THEN l.stop_offsets
                     ELSE edges[ret.target[1]].stop_offsets
           n == Len(chosen)
       IN  /\ ret.exc = NoException
           /\ Len(ret.val) \in {n, n + 1}
           /\ \A i \in 1..n : ret.val[i] = chosen[i].value
           /\ Len(ret.val) = n + 1
              => ret.val[n + 1] = 0 /\ \A i \in 1..n : chosen[i].value # 0
           /\ l.stop_offsets # <<>>
              => \A other \in OtherEdgeOffsets :
                    GetStopLineLocations(
                       [edges EXCEPT ![ret.target[1]].stop_offsets = other], ret.target)
                       = ret.val

\* the lane and its edge both declare stop offsets, the lane's declarations
\* leave a class uncovered and the second has the offset 0: the list is
\* the lane's offsets in their order, without another 0 and without the
\* offset of the edge
C21_Witness ==
    /\ Returned("get_stop_line_locations")
    /\ Len(LaneAt(edges, ret.target).stop_offsets) = 2
    /\ edges[ret.target[1]].stop_offsets # <<>>
    /\ NotCovered(ret.target)
    /\ ret.val = <<1, 0>>

(***************************************************************************)
(* C22.  get_request_by_index raises IndexError when no Request of the     *)
(* junction has the index.  get_request_by_int_lane raises IndexError when *)
(* the junction does not list the lane id, and when it lists it at         *)
(* position p and no Request has the index p; otherwise it returns the     *)
(* Request whose index is the position of the id in the list.              *)
(***************************************************************************)
\* some Request of the junction has the index
HasRequestWithIndex(j, index) ==
    \E i \in DOMAIN junctions[j].requests : junctions[j].requests[i].index = index

\* the position, from 0, at which the junction first lists the lane id
PositionOf(j, lane_id) ==
    (CHOOSE p \in DOMAIN junctions[j].intLane_ids :
        /\ junctions[j].intLane_ids[p] = lane_id
        /\ \A q \in 1..(p - 1) : junctions[j].intLane_ids[q] # lane_id) - 1

C22_LookupsRaiseIndexError ==
    /\ ret.op = "get_request_by_index"
       => IF HasRequestWithIndex(ret.target[1], ret.target[2])
          THEN ret.exc = NoException /\ ret.val.index = ret.target[2]
          ELSE ret.exc = "IndexError"
    /\ ret.op = "get_request_by_int_lane"
       => LET j == ret.target[1]
              lane_id == ret.target[2]
          IN  IF \A p \in DOMAIN junctions[j].intLane_ids :
                    junctions[j].intLane_ids[p] # lane_id
              THEN ret.exc = "IndexError"
              ELSE IF ~HasRequestWithIndex(j, PositionOf(j, lane_id))
              THEN ret.exc = "IndexError"
              ELSE ret.exc = NoException /\ ret.val.index = PositionOf(j, lane_id)

(***************************************************************************)
(* C23.  Every call of set_style, Net.plot and Net.generate_obj_text       *)
(* leaves the style and the stop line toggle at the values it supplies and *)
(* keeps those it omits, so that after any sequence of calls the last      *)
(* supplied values are in effect; set_stripe_width_scale sets the stripe   *)
(* width scale, and every Net.plot and Net.generate_obj_text sets it to    *)
(* its stripe_width_scale argument (1 when omitted), whatever was set      *)
(* before.                                                                 *)
(***************************************************************************)
\* the globals g with the supplied style and toggle in effect
WithSupplied(g, style, plot_stop_lines) ==
    [g EXCEPT !.style = IF style # "None" THEN style ELSE @,
              !.plot_stop_lines = IF plot_stop_lines # "None" THEN plot_stop_lines = "True"
                                  ELSE @]

\* the globals in the state after the step
GlobalsAfter ==
    [style |-> LANE_MARKINGS_STYLE', plot_stop_lines |-> PLOT_STOP_LINES',
     scale |-> STRIPE_WIDTH_SCALE_FACTOR']

C23_LastSuppliedInEffect ==
    [][/\ ret'.op = "set_style"
          => GlobalsAfter = WithSupplied(Globals, ret'.target[1], ret'.target[2])
       /\ ret'.op = "set_stripe_width_scale"
          => GlobalsAfter = [Globals EXCEPT !.scale = ret'.target]
       /\ ret'.op = "plot"
          => GlobalsAfter = [WithSupplied(Globals, ret'.target[1], ret'.target[3])
                               EXCEPT !.scale = ret'.target[2]]
       /\ ret'.op = "generate_obj_text"
          => GlobalsAfter = [WithSupplied(Globals, ret'.target[1], "None")
                               EXCEPT !.scale = ret'.target[2]]]_vars

(***************************************************************************)
(* C23 as the code has it: the above for the calls that supply a supported *)
(* style or none.  A call that supplies an unsupported style raises and    *)
(* leaves the style, the stop line toggle and the stripe width scale as    *)
(* they were, also the toggle and the scale it supplies with it.           *)
(***************************************************************************)
C23_LastAcceptedInEffect ==
    /\ [](\A style \in Styles, plot_stop_lines \in Toggles, factor \in Factors :
            /\ set_style(Globals, style, plot_stop_lines)
                  = IF style \in UnsupportedStyles
                    THEN [exc |-> "IndexError", g |-> Globals]
                    ELSE [exc |-> NoException,
                          g |-> WithSupplied(Globals, style, plot_stop_lines)]
            /\ set_stripe_width_scale(Globals, factor) = [Globals EXCEPT !.scale = factor])
    /\ [][/\ ret'.op = "set_style"
             => IF ret'.target[1] \in UnsupportedStyles
                THEN ret'.exc = "IndexError" /\ GlobalsAfter = Globals
                ELSE GlobalsAfter = WithSupplied(Globals, ret'.target[1], ret'.target[2])
          /\ ret'.op = "set_stripe_width_scale"
             => GlobalsAfter = [Globals EXCEPT !.scale = ret'.target]
          /\ ret'.op = "plot"
             => IF ret'.target[1] \in UnsupportedStyles
                THEN ret'.exc = "IndexError" /\ GlobalsAfter = Globals
                ELSE GlobalsAfter = [WithSupplied(Globals, ret'.target[1], ret'.target[3])
                                       EXCEPT !.scale = ret'.target[2]]
          /\ ret'.op = "generate_obj_text"
             => IF ret'.target[1] \in UnsupportedStyles
                THEN ret'.exc = "IndexError" /\ GlobalsAfter = Globals
                ELSE GlobalsAfter = [WithSupplied(Globals, ret'.target[1], "None")
                                       EXCEPT !.scale = ret'.target[2]]]_vars

\* a plot that supplies neither style nor toggle nor scale has returned:
\* the style and the toggle set by earlier calls are in effect and the
\* stripe width scale is 1
C23_Witness ==
    /\ ret.op = "plot"
    /\ ret.target = <<"None", 1, "None">>
    /\ LANE_MARKINGS_STYLE = USA_STYLE
    /\ PLOT_STOP_LINES = FALSE
    /\ STRIPE_WIDTH_SCALE_FACTOR = 1

(***************************************************************************)
(* C24.  Trajectory.plot with the default window (start 0, end infinity)   *)
(* draws, for a trajectory of n >= 2 points, the n-1 segments between      *)
(* consecutive points, segment i joining point i to point i+1 in the       *)
(* colour colors[i]; with fewer than 2 points it draws nothing.            *)
(***************************************************************************)
C24_AllSegmentsDrawn ==
    (ret.op = "Trajectory.plot" /\ ret.target = <<0, Inf>>)
    => LET n == Len(trajectory.x)
       IN  IF n < 2 THEN ret.val = <<>>
           ELSE /\ Len(ret.val) = n - 1
                /\ \A i \in 1..(n - 1) :
                      ret.val[i] = [x |-> <<trajectory.x[i], trajectory.x[i + 1]>>,
                                    y |-> <<trajectory.y[i], trajectory.y[i + 1]>>,
                                    c |-> trajectory.colors[i]]

====
